---- MODULE Spec2Model ----
(***************************************************************************)
(* Glyph cache manager of maplibre-gl-js (routinghub fork):                *)
(*   GlyphManager.getGlyphs / _getAndCacheGlyphsPromise / _tinySDF,        *)
(* and the segmenter that makes the glyph ids,                             *)
(*   stringToRenderSegments / UnicodeOrthographicSyllablesSegmenter,       *)
(* modelled as state machines.  An id is a segment string, written here    *)
(* as the sequence of its code points.  A getGlyphs call runs the          *)
(* synchronous part of each of its lookups in one step (JavaScript runs    *)
(* the for-loop to completion); each lookup suspended on `await` resumes   *)
(* in a step of its own once the awaited promise has settled.              *)
(***************************************************************************)
EXTENDS Integers, Sequences, FiniteSets, Bags, TLC

VARIABLES
    env,        \* what the callers of this run use: stacks and ids
    family,     \* GlyphManager.localIdeographFontFamily
    url,        \* GlyphManager.url
    entries,    \* GlyphManager.entries : stack -> Entry (or NoEntry)
    fetches,    \* every loadGlyphRange call made so far, per stack and range
    calls,      \* the bag of getGlyphs calls in progress
    seg,        \* a call of stringToRenderSegments: its input and what it returns
    tab,        \* the construction of the code point sets (SETS) from the property list
    sdf         \* a TinySDF, the call made on it and what the call returns

vars == <<env, family, url, entries, fetches, calls, seg, tab, sdf>>

----------------------------------------------------------------------------
(* Bounds of the model *)

\* number of lookups, over all getGlyphs calls, in progress at the same time
MaxLookups == 2
\* cap on the loadGlyphRange calls recorded per stack and range
MaxLoads == 2

----------------------------------------------------------------------------
(* Inputs *)

IdSpace    == <<12288>>      \* U+3000 IDEOGRAPHIC SPACE: white space, range 48
IdComma    == <<12289>>      \* U+3001: CJK Symbols and Punctuation, range 48
IdHira     == <<12354>>      \* U+3042: Hiragana, range 48
IdKata     == <<12450>>      \* U+30A2: Katakana, range 48
IdGuj      == <<2709>>       \* U+0A95: Gujarati, range 10
IdAstral   == <<128512>>     \* U+1F600: range 502, beyond the 16-bit space

Ids    == {IdSpace, IdComma, IdHira, IdKata, IdGuj, IdAstral}
Stacks == {"Noto Sans Regular", "Noto Sans Bold"}

NoUrl == "undefined"
Urls  == {"u1", "u2"}

NoFamily == "false"

\* one run: the font family the manager is constructed with, and the stacks,
\* ids and source locations its callers use
Environments ==
    { [family |-> NoFamily, stacks |-> {"Noto Sans Regular"},
       ids |-> {IdComma, IdHira}, urls |-> {"u1"}],
      [family |-> "sans-serif", stacks |-> {"Noto Sans Regular"},
       ids |-> {IdComma, IdHira}, urls |-> {"u1"}],
      [family |-> NoFamily, stacks |-> {"Noto Sans Regular"},
       ids |-> {IdComma, IdAstral}, urls |-> {"u1"}],
      [family |-> NoFamily, stacks |-> {"Noto Sans Regular"},
       ids |-> {IdSpace, IdComma}, urls |-> {"u1"}],
      [family |-> "sans-serif", stacks |-> {"Noto Sans Regular"},
       ids |-> {IdSpace, IdComma}, urls |-> {"u1"}],
      [family |-> NoFamily, stacks |-> Stacks,
       ids |-> {IdComma}, urls |-> {"u1"}],
      [family |-> "sans-serif", stacks |-> Stacks,
       ids |-> {IdHira}, urls |-> {"u1"}],
      [family |-> "sans-serif", stacks |-> {"Noto Sans Regular"},
       ids |-> {IdGuj, IdHira, IdKata}, urls |-> {"u1"}],
      [family |-> NoFamily, stacks |-> {"Noto Sans Regular"},
       ids |-> {IdComma}, urls |-> Urls] }

Pairs == [stack : env.stacks, id : env.ids]

\* the lists of lookups of one getGlyphs call
Batches == UNION {[1 .. n -> Pairs] : n \in 1 .. MaxLookups}

----------------------------------------------------------------------------
(* Values *)

Undefined == [kind |-> "undefined"]
Null      == [kind |-> "null"]
(* A StyleGlyph.  bitmap names the buffer that holds the glyph's pixels, by
   the place that allocated it: the k-th response for a range of a stack, a
   draw of an id by a TinySDF, or a clone().  The draws of one id by one
   TinySDF share a name although every draw allocates a new array: the name
   stands for whichever of them the holder has. *)
RemoteGlyph(id, b) == [kind |-> "remote", id |-> id, bitmap |-> b]
LocalGlyph(id, dbl, b) ==
    [kind |-> "local", id |-> id, isDoubleResolution |-> dbl, bitmap |-> b]

LoaderBuffer(stack, k, id) == [by |-> "loader", stack |-> stack, k |-> k, id |-> id]
DrawBuffer(tinySDF, id) == [by |-> "draw", tinySDF |-> tinySDF, id |-> id]
CloneBuffer(n) == [by |-> "clone", n |-> n]

IsGlyph(g) == g.kind \in {"remote", "local"}

\* the buffer of a value, if it is a glyph
BitmapsOf(g) == IF IsGlyph(g) THEN {g.bitmap} ELSE {}

\* clone() allocates: the new buffer is none of the clones in use, the n-th,
\* counting from 1, that is not among live
Fresh(live, n) ==
    CloneBuffer(CHOOSE b \in 0 .. (Cardinality(live) + n) :
        /\ CloneBuffer(b) \notin live
        /\ Cardinality({x \in 0 .. b : CloneBuffer(x) \notin live}) = n)

CodePointAt0(id) == id[1]
RangeOf(id) == CodePointAt0(id) \div 256
Ranges == {RangeOf(id) : id \in Ids}
IdsOfRange(r) == {id \in Ids : RangeOf(id) = r}

\* String.prototype.trim's white space
WhiteSpace ==
    {9, 10, 11, 12, 13, 32, 160, 5760, 8232, 8233, 8239, 8287, 12288, 65279}
    \cup (8192 .. 8202)

\* id.trim() == ''
TrimIsEmpty(id) == \A i \in DOMAIN id : id[i] \in WhiteSpace

\* unicodeBlockLookup
InBlock(name, c) ==
    CASE name = "Devanagari" -> c >= 2304 /\ c <= 2431
      [] name = "Bengali" -> c >= 2432 /\ c <= 2559
      [] name = "Gujarati" -> c >= 2688 /\ c <= 2815
      [] name = "Tamil" -> c >= 2944 /\ c <= 3071
      [] name = "Telugu" -> c >= 3072 /\ c <= 3199
      [] name = "Tibetan" -> c >= 3840 /\ c <= 4095
      [] name = "Myanmar" -> c >= 4096 /\ c <= 4255
      [] name = "Khmer" -> c >= 6016 /\ c <= 6143
      [] name = "Hiragana" -> c >= 12352 /\ c <= 12447
      [] name = "Katakana" -> c >= 12448 /\ c <= 12543
      [] name = "CJK Unified Ideographs" -> c >= 19968 /\ c <= 40959
      [] name = "Hangul Syllables" -> c >= 44032 /\ c <= 55215

LocalBlocks ==
    {"Devanagari", "Bengali", "Gujarati", "Tamil", "Telugu", "Tibetan",
     "Myanmar", "Khmer", "CJK Unified Ideographs", "Hangul Syllables",
     "Hiragana", "Katakana"}

DoubleBlocks ==
    {"CJK Unified Ideographs", "Hangul Syllables", "Hiragana", "Katakana"}

\* GlyphManager._doesSegmentSupportLocalGlyph
DoesSegmentSupportLocalGlyph(fam, id) ==
    /\ fam # NoFamily
    /\ \E b \in LocalBlocks : InBlock(b, CodePointAt0(id))

\* GlyphManager._doesCharShouldHaveDoubleResolution
DoesCharShouldHaveDoubleResolution_NoKana(id) ==
    \E b \in {"CJK Unified Ideographs", "Hangul Syllables"} : InBlock(b, CodePointAt0(id))
DoesCharShouldHaveDoubleResolution(id) ==
    \E b \in DoubleBlocks : InBlock(b, CodePointAt0(id))

\* no call of stringToRenderSegments is under way
NoSegmentation == [pc |-> "idle", inputStr |-> <<>>, clusters |-> <<>>, segments |-> <<>>]

\* the construction of the sets is not being followed
NoTable == [pc |-> "idle"]

\* no TinySDF is being followed
NoDraw == [pc |-> "idle"]

----------------------------------------------------------------------------
(* The cache entry of one font stack (type Entry) *)

NoEntry == [kind |-> "none"]
NoSDF   == [kind |-> "none"]

\* the entry created on the first lookup of a stack
NewEntry ==
    [kind     |-> "entry",
     glyphs   |-> [id \in Ids |-> Undefined],
     requests |-> [r \in Ranges |-> 0],
     ranges   |-> [r \in Ranges |-> FALSE],
     tinySDF1 |-> NoSDF,
     tinySDF2 |-> NoSDF]

\* let entry = this.entries[stack]; if (!entry) entry = this.entries[stack] = {...}
EntryOf_Shared(es, stack) ==
    IF es["Noto Sans Regular"] = NoEntry THEN NewEntry ELSE es["Noto Sans Regular"]
EntryOf(es, stack) == IF es[stack] = NoEntry THEN NewEntry ELSE es[stack]

(* The promise returned by one loadGlyphRange call.  entry.requests[range]
   holds a promise; here it holds the position of that promise in
   fetches[stack][range], 0 when the property is not set. *)
PendingPromise(u) == [st |-> "pending", url |-> u, response |-> <<>>]

\* what a glyph source can answer for a range: some of the range's ids,
\* each with a glyph or with null
Responses(r) ==
    UNION { [D -> {"glyph", "null"}] : D \in SUBSET (IdsOfRange(r) \cap env.ids) }

\* the response object: a glyph with a buffer of its own for every id the
\* source has a glyph for, null for the others
ParsedResponse(answer, stack, k) ==
    [id \in DOMAIN answer |->
        IF answer[id] = "glyph" THEN RemoteGlyph(id, LoaderBuffer(stack, k, id))
        ELSE Null]

\* response[id], undefined when the response has no such property
ResponseAt(response, id) ==
    IF id \notin DOMAIN response THEN Undefined ELSE response[id]

----------------------------------------------------------------------------
(* One lookup: a call of _getAndCacheGlyphsPromise(stack, id) *)

\* st: "await" (suspended at line 628), "done" (returned), "fail" (threw).
\* synth, join and atResolved are history: whether _tinySDF drew during the
\* lookup, the state of the request the lookup found at line 623, and whether
\* the range was marked resolved when the lookup returned.
Lookup(stack, id, st, glyph, err, req, synth, join, atResolved) ==
    [stack |-> stack, id |-> id, st |-> st, glyph |-> glyph, err |-> err,
     req |-> req, synth |-> synth, join |-> join, atResolved |-> atResolved]

Outcome(entry, fs, lk) == [entry |-> entry, fs |-> fs, lk |-> lk]

\* new GlyphManager.TinySDF({fontSize, buffer, radius, ...}); madeFor tells
\* the instances of one stack and tier apart: the id whose lookup made it
NewTinySDF(stack, textureScale, id) ==
    [kind |-> "TinySDF", stack |-> stack, madeFor |-> id,
     fontSize |-> 24 * textureScale,
     buffer |-> 8 * textureScale,
     radius |-> 8 * textureScale]

\* GlyphManager._tinySDF: the entry with the synthesizer of the id's tier
\* created if it was missing, and the glyph drawn (undefined without a
\* family); draw returns a new data array, which becomes the glyph's bitmap
TinySDF_AlwaysNew(entry, stack, id, fam) ==
    IF fam = NoFamily THEN [entry |-> entry, glyph |-> Undefined]
    ELSE LET isDoubleResolution == DoesCharShouldHaveDoubleResolution(id)
             textureScale == IF isDoubleResolution THEN 2 ELSE 1
             made == NewTinySDF(stack, textureScale, id)
             entry2 == IF isDoubleResolution
                       THEN [entry EXCEPT !.tinySDF2 = made]
                       ELSE [entry EXCEPT !.tinySDF1 = made]
         IN [entry |-> entry2,
             glyph |-> LocalGlyph(id, isDoubleResolution, DrawBuffer(made, id))]
TinySDF(entry, stack, id, fam) ==
    IF fam = NoFamily THEN [entry |-> entry, glyph |-> Undefined]
    ELSE LET isDoubleResolution == DoesCharShouldHaveDoubleResolution(id)
             textureScale == IF isDoubleResolution THEN 2 ELSE 1
             tinySDF == IF isDoubleResolution THEN entry.tinySDF2 ELSE entry.tinySDF1
             made == NewTinySDF(stack, textureScale, id)
             used == IF tinySDF # NoSDF THEN tinySDF ELSE made
             entry2 == IF tinySDF # NoSDF THEN entry
                       ELSE IF isDoubleResolution
                            THEN [entry EXCEPT !.tinySDF2 = made]
                            ELSE [entry EXCEPT !.tinySDF1 = made]
         IN [entry |-> entry2,
             glyph |-> LocalGlyph(id, isDoubleResolution, DrawBuffer(used, id))]

\* range * 256 > 65535
RangeOverflow_NoScale(range) == range > 65535
RangeOverflow(range) == range * 256 > 65535

\* !this.url
UrlMissing_Never(u) == FALSE
UrlMissing(u) == u = NoUrl

\* !entry.requests[range]
NoRequest_Unresolved(entry, range) == ~entry.ranges[range]
NoRequest(entry, range) == entry.requests[range] = 0

\* lines 623-626: the request a lookup awaits, started if none is recorded
JoinOrStart(entry, fs, range, u) ==
    IF NoRequest(entry, range)
    THEN LET fs2 == [fs EXCEPT ![range] = Append(@, PendingPromise(u))]
         IN [entry |-> [entry EXCEPT !.requests[range] = Len(fs2[range])],
             fs |-> fs2, join |-> "started"]
    ELSE [entry |-> entry, fs |-> fs,
          join |-> fs[range][entry.requests[range]].st]

\* lines 600-628: the lookup from the cached-entry test up to the await
RemoteLookup_UrlFirst(entry, fs, stack, id, u) ==
    LET glyph == entry.glyphs[id]
        range == RangeOf(id)
    IN  IF UrlMissing(u)
        THEN Outcome(entry, fs,
                 Lookup(stack, id, "fail", Undefined, "glyphsUrl is not set",
                        0, FALSE, "none", FALSE))
        ELSE IF glyph # Undefined
        THEN Outcome(entry, fs,
                 Lookup(stack, id, "done", glyph, "", 0, FALSE, "none", entry.ranges[range]))
        ELSE IF RangeOverflow(range)
        THEN Outcome(entry, fs,
                 Lookup(stack, id, "fail", Undefined, "glyphs > 65535 not supported",
                        0, FALSE, "none", FALSE))
        ELSE IF entry.ranges[range]
        THEN Outcome(entry, fs,
                 Lookup(stack, id, "done", glyph, "", 0, FALSE, "none", TRUE))
        ELSE LET j == JoinOrStart(entry, fs, range, u)
             IN Outcome(j.entry, j.fs,
                    Lookup(stack, id, "await", Undefined, "", j.entry.requests[range],
                           FALSE, j.join, FALSE))
RemoteLookup(entry, fs, stack, id, u) ==
    LET glyph == entry.glyphs[id]
        range == RangeOf(id)
    IN  IF glyph # Undefined
        THEN Outcome(entry, fs,
                 Lookup(stack, id, "done", glyph, "", 0, FALSE, "none", entry.ranges[range]))
        ELSE IF RangeOverflow(range)
        THEN Outcome(entry, fs,
                 Lookup(stack, id, "fail", Undefined, "glyphs > 65535 not supported",
                        0, FALSE, "none", FALSE))
        ELSE IF entry.ranges[range]
        THEN Outcome(entry, fs,
                 Lookup(stack, id, "done", glyph, "", 0, FALSE, "none", TRUE))
        ELSE IF UrlMissing(u)
        THEN Outcome(entry, fs,
                 Lookup(stack, id, "fail", Undefined, "glyphsUrl is not set",
                        0, FALSE, "none", FALSE))
        ELSE LET j == JoinOrStart(entry, fs, range, u)
             IN Outcome(j.entry, j.fs,
                    Lookup(stack, id, "await", Undefined, "", j.entry.requests[range],
                           FALSE, j.join, FALSE))

\* lines 592-598: the synthesized glyph is stored and returned
LocalLookup_MarksRange(entry, fs, stack, id, fam, u) ==
    LET t == TinySDF(entry, stack, id, fam)
    IN  IF t.glyph # Undefined
        THEN Outcome([t.entry EXCEPT !.glyphs[id] = t.glyph,
                                     !.ranges[RangeOf(id)] = TRUE], fs,
                 Lookup(stack, id, "done", t.glyph, "", 0, TRUE, "none", TRUE))
        ELSE RemoteLookup(t.entry, fs, stack, id, u)
LocalLookup(entry, fs, stack, id, fam, u) ==
    LET t == TinySDF(entry, stack, id, fam)
    IN  IF t.glyph # Undefined
        THEN Outcome([t.entry EXCEPT !.glyphs[id] = t.glyph], fs,
                 Lookup(stack, id, "done", t.glyph, "", 0, TRUE, "none",
                        entry.ranges[RangeOf(id)]))
        ELSE RemoteLookup(t.entry, fs, stack, id, u)

\* which of the three paths a lookup takes (lines 586, 592, 600)
PathOf_NoBlank(entry, id, fam) ==
    IF DoesSegmentSupportLocalGlyph(fam, id) THEN "local" ELSE "remote"
PathOf_CachedFirst(entry, id, fam) ==
    IF TrimIsEmpty(id) THEN "blank"
    ELSE IF entry.glyphs[id] # Undefined THEN "remote"
    ELSE IF DoesSegmentSupportLocalGlyph(fam, id) THEN "local"
    ELSE "remote"
PathOf(entry, id, fam) ==
    IF TrimIsEmpty(id) THEN "blank"
    ELSE IF DoesSegmentSupportLocalGlyph(fam, id) THEN "local"
    ELSE "remote"

\* _getAndCacheGlyphsPromise from its first line to its first await, return
\* or throw.  (The test of line 606 cannot succeed: an id that passed line 586
\* is not empty.)
GetAndCacheGlyphsSync_DefaultFamily(entry, fs, stack, id, fam, u) ==
    LET path == PathOf(entry, id, "sans-serif")
    IN  IF path = "blank"
        THEN Outcome(entry, fs,
                 Lookup(stack, id, "done", entry.glyphs[id], "", 0, FALSE, "none",
                        entry.ranges[RangeOf(id)]))
        ELSE IF path = "local"
        THEN LocalLookup(entry, fs, stack, id, "sans-serif", u)
        ELSE RemoteLookup(entry, fs, stack, id, u)
GetAndCacheGlyphsSync(entry, fs, stack, id, fam, u) ==
    LET path == PathOf(entry, id, fam)
    IN  IF path = "blank"
        THEN Outcome(entry, fs,
                 Lookup(stack, id, "done", entry.glyphs[id], "", 0, FALSE, "none",
                        entry.ranges[RangeOf(id)]))
        ELSE IF path = "local"
        THEN LocalLookup(entry, fs, stack, id, fam, u)
        ELSE RemoteLookup(entry, fs, stack, id, u)

----------------------------------------------------------------------------
(* getGlyphs *)

\* Promise.all rejects with the first rejection: the error a call will
\* reject with, "" while none of its lookups has thrown
FirstError(err, lk) == IF err = "" /\ lk.st = "fail" THEN lk.err ELSE err

\* lines 549-553: the lookups of the batch from position i on, each run up to
\* its first await, return or throw, one after the other
RECURSIVE RunLookups(_, _, _, _, _, _, _)
RunLookups(es, fs, lks, batch, i, fam, u) ==
    IF i > Len(batch) THEN [entries |-> es, fetches |-> fs, lookups |-> lks]
    ELSE LET stack == batch[i].stack
             o == GetAndCacheGlyphsSync(EntryOf(es, stack), fs[stack], stack,
                                        batch[i].id, fam, u)
         IN RunLookups([es EXCEPT ![stack] = o.entry],
                       [fs EXCEPT ![stack] = o.fs],
                       Append(lks, o.lk), batch, i + 1, fam, u)

RECURSIVE ErrorOf(_, _, _)
ErrorOf(err, lks, i) ==
    IF i > Len(lks) THEN err ELSE ErrorOf(FirstError(err, lks[i]), lks, i + 1)

\* lines 563-568: glyph && {id, bitmap: glyph.bitmap.clone(), metrics}, where
\* b is the buffer clone() allocates
CloneGlyph_Alias(glyph, b) == glyph
CloneGlyph(glyph, b) == IF IsGlyph(glyph) THEN [glyph EXCEPT !.bitmap = b] ELSE glyph

\* lines 557-571: result[stack][id] for every lookup, a later lookup of the
\* same pair overwriting an earlier one; the loop clones the bitmap of every
\* lookup that returned a glyph, in the order of the lookups
ResultOf_GlyphsOnly(lks, live) ==
    [p \in {[stack |-> lks[i].stack, id |-> lks[i].id] :
                i \in {j \in DOMAIN lks : IsGlyph(lks[j].glyph)}} |->
        LET last == CHOOSE i \in DOMAIN lks :
                        /\ lks[i].stack = p.stack /\ lks[i].id = p.id
                        /\ \A j \in DOMAIN lks :
                              (lks[j].stack = p.stack /\ lks[j].id = p.id) => j <= i
        IN CloneGlyph(lks[last].glyph, Fresh(live, last))]
ResultOf(lks, live) ==
    [p \in {[stack |-> lks[i].stack, id |-> lks[i].id] : i \in DOMAIN lks} |->
        LET last == CHOOSE i \in DOMAIN lks :
                        /\ lks[i].stack = p.stack /\ lks[i].id = p.id
                        /\ \A j \in DOMAIN lks :
                              (lks[j].stack = p.stack /\ lks[j].id = p.id) => j <= i
            clones == Cardinality({j \in 1 .. last : IsGlyph(lks[j].glyph)})
        IN CloneGlyph(lks[last].glyph, Fresh(live, clones))]

Calls == BagToSet(calls)

\* the buffers of the results the callers hold
ClonesInUse ==
    UNION {UNION {BitmapsOf(c.result[q]) : q \in DOMAIN c.result} : c \in Calls}

RECURSIVE LookupsInProgress(_)
LookupsInProgress(cs) ==
    IF cs = {} THEN 0
    ELSE LET c == CHOOSE x \in cs : TRUE
         IN CopiesIn(c, calls) * Len(c.lookups) + LookupsInProgress(cs \ {c})

Replace(call, new) == (calls (-) SetToBag({call})) (+) SetToBag({new})

\* getGlyphs(glyphs), up to `await Promise.all(glyphsPromises)`
GetGlyphs(batch) ==
    /\ LookupsInProgress(Calls) + Len(batch) <= MaxLookups
    /\ LET r == RunLookups(entries, fetches, <<>>, batch, 1, family, url)
       IN /\ \A s \in Stacks, g \in Ranges : Len(r.fetches[s][g]) <= MaxLoads
          /\ entries' = r.entries
          /\ fetches' = r.fetches
          /\ calls' = calls (+) SetToBag({
                [st |-> "running", lookups |-> r.lookups,
                 err |-> ErrorOf("", r.lookups, 1), result |-> <<>>]})
    /\ UNCHANGED <<seg, tab, sdf, env, family, url>>

\* setURL(url)
SetURL_NewCache(u) ==
    /\ url' = u
    /\ entries' = IF u = url THEN entries ELSE [s \in Stacks |-> NoEntry]
    /\ UNCHANGED <<seg, tab, sdf, env, family, fetches, calls>>
SetURL(u) ==
    /\ url' = u
    /\ UNCHANGED <<seg, tab, sdf, env, family, entries, fetches, calls>>

\* the glyph source answers a loadGlyphRange call
LoadSucceeds(stack, range, k, response) ==
    /\ fetches[stack][range][k].st = "pending"
    /\ fetches' = [fetches EXCEPT ![stack][range][k] =
                      [@ EXCEPT !.st = "fulfilled",
                                !.response = ParsedResponse(response, stack, k)]]
    /\ UNCHANGED <<seg, tab, sdf, env, family, url, entries, calls>>

\* a loadGlyphRange call fails
LoadFails(stack, range, k) ==
    /\ fetches[stack][range][k].st = "pending"
    /\ fetches' = [fetches EXCEPT ![stack][range][k].st = "rejected"]
    /\ UNCHANGED <<seg, tab, sdf, env, family, url, entries, calls>>

\* lines 629-631: for (const id in response) entry.glyphs[id] = response[id]
MergeResponse_Skip(glyphs, response) == glyphs
MergeResponse_Replace(glyphs, response) ==
    [id \in Ids |-> IF id \in DOMAIN response THEN ResponseAt(response, id)
                    ELSE Undefined]
MergeResponse(glyphs, response) ==
    [id \in Ids |-> IF id \in DOMAIN response THEN ResponseAt(response, id)
                    ELSE glyphs[id]]

\* line 633: response[id] || null
ResponseGlyph_Any(response, id) ==
    IF \E j \in DOMAIN response : IsGlyph(response[j])
    THEN response[CHOOSE j \in DOMAIN response : IsGlyph(response[j])]
    ELSE Null
ResponseGlyph(response, id) ==
    IF IsGlyph(ResponseAt(response, id)) THEN ResponseAt(response, id) ELSE Null

\* lines 628-632 after a fulfilled await
AfterFulfilled(entry, range, response) ==
    [entry EXCEPT !.glyphs = MergeResponse(@, response), !.ranges[range] = TRUE]

\* line 628 after a rejected await: the lookup throws, the entry is as it was
AfterRejected_MarksRange(entry, range) == [entry EXCEPT !.ranges[range] = TRUE]
AfterRejected(entry, range) == entry

\* a lookup suspended at line 628 goes on once its promise has settled
Resume_UnlessRejected(call, i) ==
    /\ call.lookups[i].st = "await"
    /\ LET lk == call.lookups[i]
           range == RangeOf(lk.id)
           promise == fetches[lk.stack][range][lk.req]
       IN \/ /\ promise.st = "fulfilled"
             /\ entries' = IF call.err # "" THEN entries
                            ELSE [entries EXCEPT ![lk.stack] =
                                     AfterFulfilled(@, range, promise.response)]
             /\ calls' = Replace(call, [call EXCEPT !.lookups[i] =
                   [lk EXCEPT !.st = "done",
                              !.glyph = ResponseGlyph(promise.response, lk.id),
                              !.atResolved = TRUE]])
          \/ /\ promise.st = "rejected"
             /\ entries' = [entries EXCEPT ![lk.stack] = AfterRejected(@, range)]
             /\ calls' = Replace(call, [call EXCEPT
                   !.lookups[i] = [lk EXCEPT !.st = "fail", !.err = "fetch failed"],
                   !.err = IF @ = "" THEN "fetch failed" ELSE @])
    /\ UNCHANGED <<seg, tab, sdf, env, family, url, fetches>>
Resume(call, i) ==
    /\ call.lookups[i].st = "await"
    /\ LET lk == call.lookups[i]
           range == RangeOf(lk.id)
           promise == fetches[lk.stack][range][lk.req]
       IN \/ /\ promise.st = "fulfilled"
             /\ entries' = [entries EXCEPT ![lk.stack] =
                               AfterFulfilled(@, range, promise.response)]
             /\ calls' = Replace(call, [call EXCEPT !.lookups[i] =
                   [lk EXCEPT !.st = "done",
                              !.glyph = ResponseGlyph(promise.response, lk.id),
                              !.atResolved = TRUE]])
          \/ /\ promise.st = "rejected"
             /\ entries' = [entries EXCEPT ![lk.stack] = AfterRejected(@, range)]
             /\ calls' = Replace(call, [call EXCEPT
                   !.lookups[i] = [lk EXCEPT !.st = "fail", !.err = "fetch failed"],
                   !.err = IF @ = "" THEN "fetch failed" ELSE @])
    /\ UNCHANGED <<seg, tab, sdf, env, family, url, fetches>>

\* line 555 and on: Promise.all settles, rejected with the first error of a
\* lookup or fulfilled when every lookup has returned
Join_NeverRejects(call) ==
    /\ call.st = "running"
    /\ \A i \in DOMAIN call.lookups : call.lookups[i].st = "done"
    /\ calls' = Replace(call, [call EXCEPT !.st = "resolved",
                                           !.result = ResultOf(call.lookups, ClonesInUse)])
    /\ UNCHANGED <<seg, tab, sdf, env, family, url, entries, fetches>>
Join(call) ==
    /\ call.st = "running"
    /\ \/ /\ call.err # ""
          /\ calls' = Replace(call, [call EXCEPT !.st = "rejected"])
       \/ /\ \A i \in DOMAIN call.lookups : call.lookups[i].st = "done"
          /\ calls' = Replace(call, [call EXCEPT !.st = "resolved",
                                                 !.result = ResultOf(call.lookups, ClonesInUse)])
    /\ UNCHANGED <<seg, tab, sdf, env, family, url, entries, fetches>>

\* the caller has its answer and every lookup of the call has ended
Return(call) ==
    /\ call.st \in {"resolved", "rejected"}
    /\ \A i \in DOMAIN call.lookups : call.lookups[i].st # "await"
    /\ calls' = calls (-) SetToBag({call})
    /\ UNCHANGED <<seg, tab, sdf, env, family, url, entries, fetches>>

\* new GlyphManager(requestManager, localIdeographFontFamily)
Init ==
    /\ env \in Environments
    /\ family = env.family
    /\ url = NoUrl
    /\ entries = [s \in Stacks |-> NoEntry]
    /\ fetches = [s \in Stacks |-> [r \in Ranges |-> <<>>]]
    /\ calls = EmptyBag
    /\ seg = NoSegmentation
    /\ tab = NoTable
    /\ sdf = NoDraw

Next ==
    \/ \E batch \in Batches : GetGlyphs(batch)
    \/ \E u \in env.urls \cup {NoUrl} : SetURL(u)
    \/ \E s \in Stacks, r \in Ranges : \E k \in DOMAIN fetches[s][r] :
          \E response \in Responses(r) : LoadSucceeds(s, r, k, response)
    \/ \E s \in Stacks, r \in Ranges : \E k \in DOMAIN fetches[s][r] :
          LoadFails(s, r, k)
    \/ \E call \in Calls : \E i \in DOMAIN call.lookups : Resume(call, i)
    \/ \E call \in Calls : Join(call)
    \/ \E call \in Calls : Return(call)

Spec == Init /\ [][Next]_vars

(* The manager with its scheduling.  A continuation of a settled promise is a
   job of the microtask queue, and the queue is run until it is empty: a
   lookup suspended on a settled request goes on (line 628), Promise.all
   settles once a lookup has thrown or all have returned (line 555), and the
   caller gets the answer.  The first conjunct is not the code's: it is the
   environment in which every loadGlyphRange call is answered. *)
SpecLive ==
    /\ Spec
    /\ WF_vars(\E s \in Stacks, r \in Ranges : \E k \in DOMAIN fetches[s][r] :
                  \/ LoadFails(s, r, k)
                  \/ \E response \in Responses(r) : LoadSucceeds(s, r, k, response))
    /\ WF_vars(\E call \in Calls : \E i \in DOMAIN call.lookups : Resume(call, i))
    /\ WF_vars(\E call \in Calls : Join(call))
    /\ WF_vars(\E call \in Calls : Return(call))

----------------------------------------------------------------------------
(* What the properties below read from a state or a step *)

\* the lookups of the calls in progress, as <<call, position>>
LookupsOf(cs) == UNION {{<<c, i>> : i \in DOMAIN c.lookups} : c \in cs}

Lk(x) == x[1].lookups[x[2]]

\* the lookups suspended on a request of the stack and range
Awaiting(s, r) ==
    {x \in LookupsOf(Calls) :
        Lk(x).st = "await" /\ Lk(x).stack = s /\ RangeOf(Lk(x).id) = r}

\* the promise a lookup awaits or awaited
PromiseOf(lk) == fetches[lk.stack][RangeOf(lk.id)][lk.req]

Outstanding(s, r) ==
    {k \in DOMAIN fetches[s][r] : fetches[s][r][k].st = "pending"}

\* a step is a getGlyphs call exactly when the bag of calls grows
IsGetGlyphsStep == BagCardinality(calls') = BagCardinality(calls) + 1
AddedCalls ==
    {c \in BagToSet(calls') : CopiesIn(c, calls') > CopiesIn(c, calls)}

\* how many lookups of the bag of calls B are among X
RECURSIVE Copies(_, _)
Copies(B, X) ==
    IF X = {} THEN 0
    ELSE LET x == CHOOSE y \in X : TRUE
         IN CopiesIn(x[1], B) + Copies(B, X \ {x})

CountLookups(B, P(_)) == Copies(B, {x \in LookupsOf(BagToSet(B)) : P(Lk(x))})

FetchFailed(lk) == lk.st = "fail" /\ lk.err = "fetch failed"
Resumed(lk) == lk.st = "done" /\ lk.req > 0
Starter(lk) == lk.st = "await" /\ lk.join = "started"

----------------------------------------------------------------------------
(* C1..C10: the range fetch *)

\* C1: for every stack and range at most one range fetch is outstanding; the
\* lookups suspended on the range all await the one request the entry records,
\* and at most one of them is the lookup that called the loader.
C1_OneFetchPerRange ==
    \A s \in Stacks, r \in Ranges :
        /\ Cardinality(Outstanding(s, r)) <= 1
        /\ \A x \in Awaiting(s, r) :
              /\ entries[s] # NoEntry
              /\ Lk(x).req = entries[s].requests[r]
              /\ Lk(x).req \in DOMAIN fetches[s][r]
        /\ Outstanding(s, r) # {} =>
              \A k \in Outstanding(s, r) : entries[s].requests[r] = k
        /\ CountLookups(calls,
               LAMBDA lk : Starter(lk) /\ lk.stack = s /\ RangeOf(lk.id) = r) <= 1

\* two getGlyphs calls and, in another state, one call with two lookups await
\* the same outstanding request for two different ids of one range
C1_Witness ==
    \E x \in LookupsOf(Calls), y \in LookupsOf(Calls) :
        /\ x[1] # y[1]
        /\ Lk(x).st = "await" /\ Lk(y).st = "await"
        /\ Lk(x).stack = Lk(y).stack
        /\ Lk(x).id = IdComma /\ Lk(y).id = IdHira
        /\ Lk(x).join = "started" /\ Lk(y).join = "pending"
        /\ Len(fetches[Lk(x).stack][48]) = 1
        /\ PromiseOf(Lk(x)).st = "pending"

\* C2 as claimed: a lookup never joins a request that has already failed;
\* after a failure the next lookup of the range calls the loader again.
C2_RetriesAfterFailure ==
    \A x \in LookupsOf(Calls) : Lk(x).join # "rejected"

\* C3, in a state: a lookup whose request failed never returns a glyph and
\* fails with the fetch error once resumed; a call with a failed lookup is
\* never fulfilled; a range whose request failed is not marked resolved.
C3_State ==
    /\ \A x \in LookupsOf(Calls) :
          (Lk(x).req > 0 /\ PromiseOf(Lk(x)).st = "rejected") =>
              /\ Lk(x).st \in {"await", "fail"}
              /\ Lk(x).st = "fail" => Lk(x).err = "fetch failed"
    /\ \A c \in Calls :
          (\E i \in DOMAIN c.lookups : c.lookups[i].st = "fail") =>
              /\ c.st # "resolved"
              /\ c.err # ""
    /\ \A s \in Stacks, r \in Ranges :
          (entries[s] # NoEntry /\ entries[s].requests[r] > 0
             /\ fetches[s][r][entries[s].requests[r]].st = "rejected")
          => ~entries[s].ranges[r]

\* C3, in a step: neither the failure of a fetch nor its delivery to an
\* awaiting lookup changes any entry.
C3_Step ==
    \/ \E s \in Stacks, r \in Ranges : \E k \in DOMAIN fetches[s][r] :
          fetches[s][r][k].st = "pending" /\ fetches'[s][r][k].st = "rejected"
    \/ CountLookups(calls', FetchFailed) > CountLookups(calls, FetchFailed)
    => entries' = entries

\* C3: a failed range fetch is delivered to every lookup awaiting it, leaves
\* the range unresolved and the glyph map as it was.
C3_FailureDelivered == []C3_State /\ [][C3_Step]_vars

\* both lookups of one call awaited the failed request, both have failed and
\* the call is rejected
C3_Witness ==
    \E c \in Calls :
        /\ c.st = "rejected"
        /\ Len(c.lookups) = 2
        /\ \A i \in DOMAIN c.lookups : FetchFailed(c.lookups[i])
        /\ c.lookups[1].id # c.lookups[2].id

\* the claims' own reading of "locally eligible": a font family is configured
\* and the leading code point is in one of the twelve script blocks
Eligible(id) ==
    /\ family # NoFamily
    /\ \E b \in LocalBlocks : InBlock(b, CodePointAt0(id))

Resolved(es, s, r) == EntryOf(es, s).ranges[r]

\* C4, in a state: a lookup that returned when its range was marked resolved
\* (a resumed one or a later one) classifies its id as the glyph map does.
C4_State ==
    \A x \in LookupsOf(Calls) :
        (Lk(x).st = "done" /\ Lk(x).atResolved /\ ~Eligible(Lk(x).id)) =>
            (IsGlyph(Lk(x).glyph) <=> IsGlyph(entries[Lk(x).stack].glyphs[Lk(x).id]))

\* C4, in a step: for a range marked resolved no step calls the loader and no
\* step changes an id of the range from present to absent or back.
C4_Step ==
    \A s \in Stacks, r \in Ranges :
        Resolved(entries, s, r) =>
            /\ Len(fetches'[s][r]) = Len(fetches[s][r])
            /\ \A id \in IdsOfRange(r) :
                  ~Eligible(id) =>
                      (IsGlyph(entries'[s].glyphs[id]) <=> IsGlyph(entries[s].glyphs[id]))

\* C4: once a range is marked resolved, later lookups of its ids start no
\* fetch and all classify an id the same way, present or absent.
C4_ResolutionStable == []C4_State /\ [][C4_Step]_vars

\* an id the response did not contain: the resumed lookup returned null, a
\* later lookup of the same id returned undefined, both absent
C4_Witness ==
    \E x \in LookupsOf(Calls), y \in LookupsOf(Calls) :
        /\ Lk(x).stack = Lk(y).stack
        /\ Lk(x).id = IdComma /\ Lk(y).id = IdComma
        /\ Lk(x).st = "done" /\ Lk(x).req > 0 /\ Lk(x).glyph = Null
        /\ Lk(y).st = "done" /\ Lk(y).req = 0 /\ Lk(y).atResolved
        /\ Lk(y).glyph = Undefined
        /\ entries[Lk(x).stack].ranges[48]

\* C5 as claimed: every id of a range marked resolved has a glyph or null in
\* the glyph map.
C5_ResolvedIsDefinitive ==
    \A s \in Stacks, r \in Ranges :
        (entries[s] # NoEntry /\ entries[s].ranges[r]) =>
            \A id \in IdsOfRange(r) \cap env.ids : entries[s].glyphs[id] # Undefined

\* C6 as claimed: the step in which a resumed lookup merges the response and
\* marks the range finds the range not yet marked: it happens once per range.
C6_MergedOnce ==
    [][CountLookups(calls', Resumed) > CountLookups(calls, Resumed) =>
          \E s \in Stacks, r \in Ranges :
              ~Resolved(entries, s, r) /\ Resolved(entries', s, r)]_vars

\* C7, in a state: a lookup of a locally eligible id has returned a glyph that
\* _tinySDF drew during that lookup.
C7_State ==
    \A x \in LookupsOf(Calls) :
        Eligible(Lk(x).id) =>
            /\ Lk(x).st = "done"
            /\ Lk(x).synth
            /\ Lk(x).glyph.kind = "local"
            /\ Lk(x).glyph.id = Lk(x).id

\* C7, in a step: after a getGlyphs call the glyph map holds a synthesized
\* glyph for every locally eligible id the call looked up.
C7_Step ==
    IsGetGlyphsStep =>
        \A x \in LookupsOf(AddedCalls) :
            Eligible(Lk(x).id) =>
                entries'[Lk(x).stack].glyphs[Lk(x).id] = Lk(x).glyph

\* C7: with a local font family, a lookup of an id of an eligible block
\* returns a glyph synthesized during the lookup and stores it, whatever was
\* cached for the id and whatever the state of its range.
C7_LocalPrecedence == []C7_State /\ [][C7_Step]_vars

\* the id was looked up locally when its range was resolved and the response
\* had put a remote glyph or null under it
C7_Witness ==
    \E x \in LookupsOf(Calls) :
        /\ Lk(x).id = IdHira /\ Lk(x).synth /\ Lk(x).atResolved
        /\ Lk(x).glyph.kind = "local"
        /\ IdHira \in DOMAIN fetches[Lk(x).stack][48][1].response
        /\ entries[Lk(x).stack].glyphs[IdHira].kind = "local"

\* C8: a getGlyphs call whose lookups were all resolved by local synthesis
\* calls the loader for nothing, leaves requests and ranges of every stack as
\* they were and changes the glyph map at the looked-up ids only.
C8_LocalFrame ==
    [][IsGetGlyphsStep =>
        \A c \in AddedCalls :
            (\A i \in DOMAIN c.lookups : c.lookups[i].synth) =>
                /\ fetches' = fetches
                /\ \A s \in Stacks :
                      /\ EntryOf(entries', s).requests = EntryOf(entries, s).requests
                      /\ EntryOf(entries', s).ranges = EntryOf(entries, s).ranges
                      /\ \A id \in Ids :
                            EntryOf(entries', s).glyphs[id] # EntryOf(entries, s).glyphs[id]
                            => \E i \in DOMAIN c.lookups :
                                  c.lookups[i].stack = s /\ c.lookups[i].id = id]_vars

\* a locally synthesized lookup has returned while the fetch of its range is
\* in flight and the range is not resolved
C8_Witness ==
    \E x \in LookupsOf(Calls) :
        /\ Lk(x).id = IdHira /\ Lk(x).synth /\ Lk(x).st = "done"
        /\ entries[Lk(x).stack].requests[48] = 1
        /\ fetches[Lk(x).stack][48][1].st = "pending"
        /\ ~entries[Lk(x).stack].ranges[48]
        /\ entries[Lk(x).stack].tinySDF2 # NoSDF

\* the claims' own reading of "the range overflows"
Overflows(id) == (CodePointAt0(id) \div 256) * 256 > 65535

\* C9, in a state: a lookup of an id whose range overflows has failed with the
\* overflow error, and no loader call exists for such a range.
C9_State ==
    /\ \A x \in LookupsOf(Calls) :
          Overflows(Lk(x).id) =>
              /\ Lk(x).st = "fail"
              /\ Lk(x).err = "glyphs > 65535 not supported"
              /\ Lk(x).req = 0
    /\ \A s \in Stacks, id \in Ids :
          Overflows(id) =>
              /\ fetches[s][RangeOf(id)] = <<>>
              /\ EntryOf(entries, s).requests[RangeOf(id)] = 0
              /\ ~EntryOf(entries, s).ranges[RangeOf(id)]
              /\ EntryOf(entries, s).glyphs[id] = Undefined

\* C9, in a step: a getGlyphs call that looks up only such ids changes no
\* glyph map, request map or range map and calls the loader for nothing.
C9_Step ==
    IsGetGlyphsStep =>
        \A c \in AddedCalls :
            (\A i \in DOMAIN c.lookups : Overflows(c.lookups[i].id)) =>
                /\ fetches' = fetches
                /\ \A s \in Stacks : EntryOf(entries', s) = EntryOf(entries, s)

\* C9: a lookup of an id whose range starts beyond 65535 fails with the
\* overflow error, every time, starts no fetch and changes no cache map.
C9_OverflowRejected == []C9_State /\ [][C9_Step]_vars

\* the overflowing id has failed in a call made when a source was configured
\* and another range had been fetched and resolved
C9_Witness ==
    \E x \in LookupsOf(Calls) :
        /\ Lk(x).id = IdAstral /\ Lk(x).st = "fail"
        /\ url # NoUrl
        /\ entries[Lk(x).stack].ranges[48]

\* what the first lookup of a call finds before the call
Blank(id) == \A i \in DOMAIN id : id[i] \in WhiteSpace
NeedsNoFetch(s, id) ==
    \/ Blank(id)
    \/ Eligible(id)
    \/ EntryOf(entries, s).glyphs[id] # Undefined
    \/ Resolved(entries, s, RangeOf(id))

\* C10 as claimed, for the first lookup of a getGlyphs call: without a source
\* it returns if the id is blank, locally eligible, cached or of a resolved
\* range, and fails with the configuration error for any other id; with a
\* source, a lookup of such another id starts the fetch.
C10_AsClaimed ==
    [][IsGetGlyphsStep =>
        \A c \in AddedCalls :
            LET lk == c.lookups[1] IN
            IF NeedsNoFetch(lk.stack, lk.id) THEN lk.st = "done"
            ELSE IF url = NoUrl
                 THEN lk.st = "fail" /\ lk.err = "glyphsUrl is not set"
                 ELSE lk.st = "await" /\ lk.join = "started"]_vars

\* C10 as amended: the other ids fail with the overflow error when their range
\* overflows, else with the configuration error when no source is configured,
\* in both cases without a loader call or a recorded request; with a source
\* the lookup awaits the request of its range, calling the loader only if the
\* entry records none.
C10_SourceNeededForFetch ==
    [][IsGetGlyphsStep =>
        \A c \in AddedCalls :
            LET lk == c.lookups[1]
                r == RangeOf(lk.id)
                alone == Len(c.lookups) = 1
                before == EntryOf(entries, lk.stack).requests[r]
            IN
            IF NeedsNoFetch(lk.stack, lk.id) THEN lk.st = "done"
            ELSE IF Overflows(lk.id) \/ url = NoUrl
                 THEN /\ lk.st = "fail"
                      /\ lk.err = IF Overflows(lk.id)
                                  THEN "glyphs > 65535 not supported"
                                  ELSE "glyphsUrl is not set"
                      /\ lk.req = 0
                      /\ alone => /\ fetches' = fetches
                                  /\ EntryOf(entries', lk.stack) = EntryOf(entries, lk.stack)
                 ELSE /\ lk.st = "await"
                      /\ IF before = 0
                         THEN /\ lk.join = "started"
                              /\ lk.req = Len(fetches[lk.stack][r]) + 1
                              /\ Len(fetches'[lk.stack][r]) >= lk.req
                              /\ fetches'[lk.stack][r][lk.req].url = url
                         ELSE /\ lk.join # "started"
                              /\ lk.req = before
                              /\ alone => fetches' = fetches]_vars

\* a lookup failed for want of a source; after setURL a lookup of the same id
\* has started the fetch
C10_Witness ==
    \E x \in LookupsOf(Calls), y \in LookupsOf(Calls) :
        /\ Lk(x).id = IdComma /\ Lk(y).id = IdComma
        /\ Lk(x).stack = Lk(y).stack
        /\ Lk(x).st = "fail" /\ Lk(x).err = "glyphsUrl is not set"
        /\ Lk(y).st = "await" /\ Lk(y).join = "started"
        /\ url # NoUrl
----------------------------------------------------------------------------
(* C11..C16: the lookup's other paths and the result of getGlyphs *)

\* C11: a getGlyphs call whose ids are all empty or white space returns, for
\* each, what the glyph map held for it before the call, draws nothing, fails
\* with no error whether or not a source or a font family is configured,
\* calls the loader for nothing and leaves every entry as it was.
C11_BlankFrame ==
    [][IsGetGlyphsStep =>
        \A c \in AddedCalls :
            (\A i \in DOMAIN c.lookups : Blank(c.lookups[i].id)) =>
                /\ \A i \in DOMAIN c.lookups :
                      LET lk == c.lookups[i] IN
                      /\ lk.st = "done" /\ lk.err = "" /\ c.err = ""
                      /\ ~lk.synth /\ lk.req = 0
                      /\ lk.glyph = EntryOf(entries, lk.stack).glyphs[lk.id]
                /\ fetches' = fetches
                /\ \A s \in Stacks : EntryOf(entries', s) = EntryOf(entries, s)]_vars

\* with a font family and no source configured, a lookup of the white-space
\* id has returned the glyph a response had put into the glyph map
C11_Witness ==
    \E x \in LookupsOf(Calls) :
        /\ Lk(x).id = IdSpace /\ Lk(x).st = "done" /\ Lk(x).req = 0
        /\ Lk(x).glyph.kind = "remote" /\ Lk(x).glyph.id = IdSpace
        /\ Lk(x).glyph = entries[Lk(x).stack].glyphs[IdSpace]
        /\ family # NoFamily /\ url = NoUrl

\* the calls a step takes out of the bag
RemovedCalls ==
    {c \in BagToSet(calls) : CopiesIn(c, calls) > CopiesIn(c, calls')}

\* the lookups a step resumes after a fulfilled await, as <<the call before,
\* the call after, position>>
ResumedNow ==
    {t \in RemovedCalls \X AddedCalls \X (1 .. MaxLookups + 1) :
        /\ BagCardinality(calls') = BagCardinality(calls)
        /\ t[3] \in DOMAIN t[1].lookups
        /\ DOMAIN t[2].lookups = DOMAIN t[1].lookups
        /\ t[1].lookups[t[3]].st = "await"
        /\ t[2].lookups[t[3]].st = "done"}

\* C12: the step that resumes a lookup after its range fetch succeeded writes
\* every id of the response into the glyph map of the lookup's stack, a glyph
\* as a glyph and null as null, marks the range resolved, and the lookup
\* returns the response's glyph for its own id, or null when the response has
\* null or nothing for that id.
C12_MergeOnSuccess ==
    [][\A t \in ResumedNow :
          LET lk == t[1].lookups[t[3]]
              after == t[2].lookups[t[3]]
              r == CodePointAt0(lk.id) \div 256
              promise == fetches[lk.stack][r][lk.req]
              response == promise.response
          IN  /\ promise.st = "fulfilled"
              /\ \A id \in DOMAIN response :
                    /\ entries'[lk.stack].glyphs[id] = response[id]
                    /\ response[id].kind \in {"remote", "null"}
                    /\ response[id].kind = "remote" => response[id].id = id
              /\ entries'[lk.stack].ranges[r]
              /\ after.stack = lk.stack /\ after.id = lk.id
              /\ after.glyph =
                    IF lk.id \in DOMAIN response /\ response[lk.id].kind = "remote"
                    THEN response[lk.id] ELSE Null]_vars

\* two lookups awaited one request; the response held a glyph for the id of
\* one and nothing for the id of the other; both have returned
C12_Witness ==
    \E x \in LookupsOf(Calls), y \in LookupsOf(Calls) :
        /\ Lk(x).stack = Lk(y).stack /\ Lk(x).req = 1 /\ Lk(y).req = 1
        /\ Lk(x).id = IdComma /\ Lk(x).st = "done" /\ Lk(x).glyph = Null
        /\ Lk(y).id = IdHira /\ Lk(y).st = "done"
        /\ Lk(y).glyph.kind = "remote" /\ Lk(y).glyph.id = IdHira
        /\ DOMAIN fetches[Lk(x).stack][48][1].response = {IdHira}
        /\ entries[Lk(x).stack].glyphs[IdHira] = Lk(y).glyph
        /\ entries[Lk(x).stack].ranges[48]

\* the buffers the manager holds or has handed to its lookups: those of the
\* glyph maps, of the responses and of the glyphs the lookups returned
ManagerBitmaps ==
    UNION {UNION {BitmapsOf(entries[s].glyphs[id]) : id \in Ids} :
              s \in {t \in Stacks : entries[t] # NoEntry}}
    \cup UNION {UNION {UNION {UNION {BitmapsOf(fetches[s][r][k].response[id]) :
                                        id \in DOMAIN fetches[s][r][k].response} :
                                 k \in DOMAIN fetches[s][r]} :
                          r \in Ranges} :
                   s \in Stacks}
    \cup UNION {UNION {BitmapsOf(c.lookups[i].glyph) : i \in DOMAIN c.lookups} :
                   c \in Calls}

\* the glyphs of a result, as <<call, pair>>
ReturnedGlyphs ==
    UNION {{<<c, q>> : q \in {p \in DOMAIN c.result : IsGlyph(c.result[p])}} :
              c \in Calls}

\* C13: the bitmap of every glyph of a result is a buffer of its own: none of
\* the buffers the manager holds, not the bitmap of another glyph of the same
\* result, and not a bitmap of the result of another call; the glyph it
\* belongs to is the one the lookup returned.
C13_FreshBitmaps ==
    \A x \in ReturnedGlyphs :
        LET c == x[1]
            g == c.result[x[2]]
        IN  /\ g.bitmap \notin ManagerBitmaps
            /\ CopiesIn(c, calls) = 1
            /\ \A y \in ReturnedGlyphs :
                  y # x => y[1].result[y[2]].bitmap # g.bitmap
            /\ g.id = x[2].id
            /\ \E i \in DOMAIN c.lookups :
                  /\ c.lookups[i].stack = x[2].stack /\ c.lookups[i].id = x[2].id
                  /\ c.lookups[i].glyph.kind = g.kind

\* two calls have each been given the glyph of one id of one stack while the
\* glyph map holds that glyph
C13_Witness ==
    \E x \in ReturnedGlyphs, y \in ReturnedGlyphs :
        /\ x[1] # y[1] /\ x[2] = y[2]
        /\ x[1].st = "resolved" /\ y[1].st = "resolved"
        /\ x[2].id = IdComma
        /\ IsGlyph(entries[x[2].stack].glyphs[IdComma])
        /\ x[1].result[x[2]].bitmap # y[1].result[y[2]].bitmap

\* the stacks the lookups of a step belong to: those of the call a getGlyphs
\* step adds, or that of the lookup a step resumes
StacksLookedUp ==
    IF IsGetGlyphsStep
    THEN {Lk(x).stack : x \in LookupsOf(AddedCalls)}
    ELSE {t[1].lookups[t[3]].stack : t \in ResumedNow}

\* the stack has nothing for the id: no entry, or an entry without a glyph
\* entry for the id, without a request for its range and its range unresolved
Cold(s, id) ==
    \/ entries[s] = NoEntry
    \/ /\ entries[s].glyphs[id] = Undefined
       /\ entries[s].requests[CodePointAt0(id) \div 256] = 0
       /\ ~entries[s].ranges[CodePointAt0(id) \div 256]

\* C14, in a step: the entry of a stack (glyphs, requests, ranges and
\* synthesizers) and its list of loader calls change only in a step of a
\* lookup on that stack; and the first lookup of a call, for an id that needs
\* a fetch and for which its own stack is cold, calls the loader for its own
\* stack, whatever the other stacks hold.
C14_Step ==
    /\ \A s \in Stacks :
          (entries'[s] # entries[s]
             \/ \E r \in Ranges : Len(fetches'[s][r]) # Len(fetches[s][r]))
          => s \in StacksLookedUp
    /\ IsGetGlyphsStep =>
          \A c \in AddedCalls :
              LET lk == c.lookups[1]
                  r == CodePointAt0(lk.id) \div 256
              IN (/\ Cold(lk.stack, lk.id) /\ url # NoUrl
                  /\ ~Blank(lk.id) /\ ~Eligible(lk.id) /\ ~Overflows(lk.id))
                 => /\ lk.st = "await" /\ lk.join = "started"
                    /\ Len(fetches'[lk.stack][r]) >= Len(fetches[lk.stack][r]) + 1
                    /\ entries'[lk.stack].requests[r] = lk.req

\* the stack a buffer of the glyph map was allocated for
StackOfBuffer(b) == IF b.by = "draw" THEN b.tinySDF.stack ELSE b.stack

\* C14, in a state: a synthesizer belongs to the stack whose entry holds it,
\* and so does every buffer of a glyph of the entry.
C14_State ==
    \A s \in Stacks :
        entries[s] # NoEntry =>
            /\ entries[s].tinySDF1 # NoSDF => entries[s].tinySDF1.stack = s
            /\ entries[s].tinySDF2 # NoSDF => entries[s].tinySDF2.stack = s
            /\ \A id \in Ids :
                  IsGlyph(entries[s].glyphs[id]) =>
                      StackOfBuffer(entries[s].glyphs[id].bitmap) = s

\* C14: font stacks are independent: a lookup on one stack changes nothing of
\* another, and a range resolved or in flight on one stack is fetched again
\* for another.
C14_StacksIndependent == []C14_State /\ [][C14_Step]_vars

\* the range is resolved on one stack with a glyph for the id, and a lookup of
\* the same id on the other stack has called the loader and awaits
C14_Witness ==
    \E x \in LookupsOf(Calls) :
        /\ Lk(x).stack = "Noto Sans Bold" /\ Lk(x).id = IdComma
        /\ Lk(x).st = "await" /\ Lk(x).join = "started"
        /\ entries["Noto Sans Regular"] # NoEntry
        /\ entries["Noto Sans Regular"].ranges[48]
        /\ IsGlyph(entries["Noto Sans Regular"].glyphs[IdComma])
        /\ Len(fetches["Noto Sans Regular"][48]) = 1
        /\ Len(fetches["Noto Sans Bold"][48]) = 1
        /\ entries["Noto Sans Bold"].glyphs[IdComma] = Undefined

\* C15: the result of a fulfilled getGlyphs call has an entry for exactly the
\* pairs of stack and id the call asked for, each a glyph of that id, null or
\* undefined; a call is fulfilled only when every one of its lookups returned.
C15_ResultCoversRequest ==
    \A c \in Calls :
        c.st = "resolved" =>
            /\ \A i \in DOMAIN c.lookups :
                  /\ c.lookups[i].st = "done"
                  /\ [stack |-> c.lookups[i].stack, id |-> c.lookups[i].id]
                        \in DOMAIN c.result
            /\ \A q \in DOMAIN c.result :
                  /\ \E i \in DOMAIN c.lookups :
                        c.lookups[i].stack = q.stack /\ c.lookups[i].id = q.id
                  /\ c.result[q].kind \in {"remote", "local", "null", "undefined"}
                  /\ c.result[q].kind \in {"remote", "local"} => c.result[q].id = q.id

\* a fulfilled call of two lookups whose result has a glyph for one pair and
\* an absent entry for the other
C15_Witness ==
    \E c \in Calls :
        /\ c.st = "resolved" /\ Len(c.lookups) = 2
        /\ \E q \in DOMAIN c.result, p \in DOMAIN c.result :
              /\ q # p
              /\ c.result[q].kind = "remote"
              /\ c.result[p].kind \in {"null", "undefined"}

\* the leading code point is in one of the twelve script blocks
InLocalBlock(id) == \E b \in LocalBlocks : InBlock(b, CodePointAt0(id))

\* C16, in a state: without a font family no entry has a synthesizer, no
\* glyph map and no lookup holds a synthesized glyph, and no lookup drew.
C16_State ==
    family = NoFamily =>
        /\ \A s \in Stacks :
              entries[s] # NoEntry =>
                  /\ entries[s].tinySDF1 = NoSDF /\ entries[s].tinySDF2 = NoSDF
                  /\ \A id \in Ids : entries[s].glyphs[id].kind # "local"
        /\ \A x \in LookupsOf(Calls) :
              ~Lk(x).synth /\ Lk(x).glyph.kind # "local"

\* C16, in a step: without a font family the first lookup of a call, for an
\* id of a script block, returns what is cached for the id if there is a
\* glyph entry or the range is resolved, fails without a source, and else
\* awaits the request of its range, calling the loader if none is recorded.
C16_Step ==
    (family = NoFamily /\ IsGetGlyphsStep) =>
        \A c \in AddedCalls :
            LET lk == c.lookups[1]
                r == CodePointAt0(lk.id) \div 256
                before == IF entries[lk.stack] = NoEntry THEN NewEntry
                          ELSE entries[lk.stack]
            IN InLocalBlock(lk.id) =>
                 IF before.glyphs[lk.id] # Undefined \/ before.ranges[r]
                 THEN lk.st = "done" /\ lk.glyph = before.glyphs[lk.id]
                 ELSE IF url = NoUrl
                 THEN lk.st = "fail" /\ lk.err = "glyphsUrl is not set"
                 ELSE /\ lk.st = "await"
                      /\ lk.join = "started" <=> before.requests[r] = 0

\* C16: without a local font family nothing is synthesized and the ids of the
\* script blocks go through the glyph map and the range fetch.
C16_NoFamilyNoSynthesis == []C16_State /\ [][C16_Step]_vars

\* without a font family a Hiragana id was fetched: the lookup that called
\* the loader has returned the glyph of the response, which is in the glyph map
C16_Witness ==
    /\ family = NoFamily
    /\ \E x \in LookupsOf(Calls) :
          /\ Lk(x).id = IdHira /\ Lk(x).st = "done" /\ Lk(x).join = "started"
          /\ Lk(x).glyph.kind = "remote"
          /\ entries[Lk(x).stack].glyphs[IdHira] = Lk(x).glyph

----------------------------------------------------------------------------
(* The segmenter: stringToRenderSegments.  A string is written as the
   sequence of its code points; where the source indexes a string it reads
   one UTF-16 code unit, which FirstUnit and LastUnit compute. *)

\* the longest input string
MaxStrLen == 3

\* the code points of the input strings: a Latin letter, TAB, the Arabic
\* number sign, Devanagari KA, AA and virama, Sinhala al-lakuna, Myanmar AA
\* and virama, the zero width joiner, two private-use code points and the
\* Kaithi virama
CodePoints ==
    {97, 9, 1536, 2325, 2366, 2381, 3530, 4139, 4153, 8205, 57345, 57347, 69817}

Strings == UNION {[1 .. n -> CodePoints] : n \in 0 .. MaxStrLen}

\* String.fromCodePoint(c) for every c of the range
FromCodePoints(start, end) == {<<c>> : c \in start .. end}

\* the sets the property list fills, from the lines of the list that hold a
\* code point of CodePoints; Extend also gets the two private-use markers
PREPEND_SET == FromCodePoints(1536, 1541)
CONTROL_SET == FromCodePoints(0, 9)
EXTEND_SET ==
    FromCodePoints(2381, 2381) \cup FromCodePoints(3530, 3530)
    \cup FromCodePoints(4153, 4154) \cup FromCodePoints(69817, 69818)
    \cup {<<57350>>, <<57351>>}
SPACING_MARK_SET == FromCodePoints(2366, 2368)

\* the sets written out in the source; a member is a string
EXCEPTIONS_SET ==
    { <<4139>>, <<4140>>, <<4152>>, <<4194>>, <<4195>>, <<4196>>,
      <<4199>>, <<4200>>, <<4201>>, <<4202>>, <<4203>>, <<4204>>,
      <<4205>>, <<4227>>, <<4231>>, <<4232>>, <<4233>>, <<4234>>,
      <<4235>>, <<4236>>, <<4239>>, <<4250>>, <<4251>>, <<4252>>,
      <<6753>>, <<6755>>, <<6756>>, <<43643>>, <<43645>>, <<4466, 48>>,
      <<4466, 49>> }

INVISIBLE_STACKER_SET ==
    { <<43766>>, <<71998>>, <<73029>>, <<73111>>, <<7083>>, <<68159>>,
      <<72263>>, <<72345>>, <<4153>>, <<69939>>, <<6098>>, <<6752>> }

VIRAMA_SET ==
    { <<2381>>, <<2509>>, <<2637>>, <<2765>>, <<2893>>, <<3149>>,
      <<3277>>, <<3405>>, <<6980>>, <<43014>>, <<43204>>, <<69817>>,
      <<70080>>, <<70197>>, <<70477>>, <<70722>>, <<70850>>, <<71103>>,
      <<71231>>, <<71350>>, <<72160>>, <<71737>>, <<69702>>, <<72767>>,
      <<43456>>, <<57345>>, <<57346>> }

CONSONANTS_SET ==
    { <<6951>>, <<6953>>, <<6946>>, <<6948>>, <<6931>>, <<6933>>,
      <<6936>>, <<6938>>, <<6962>>, <<6963>>, <<6955>>, <<6950>>,
      <<6935>>, <<6940>>, <<6959>>, <<6957>>, <<6958>>, <<6956>>,
      <<6952>>, <<6954>>, <<6941>>, <<6947>>, <<6949>>, <<6934>>,
      <<6960>>, <<6961>>, <<6945>>, <<6942>>, <<6943>>, <<6944>>,
      <<6932>>, <<6937>>, <<6939>>, <<6981>>, <<6982>>, <<6983>>,
      <<6984>>, <<6985>>, <<6986>>, <<6987>>, <<6923>>, <<6924>>,
      <<6925>>, <<6926>>, <<2325>>, <<2326>>, <<2327>>, <<2328>>,
      <<2329>>, <<2330>>, <<2331>>, <<2332>>, <<2333>>, <<2334>>,
      <<2335>>, <<2336>>, <<2337>>, <<2338>>, <<2339>>, <<2340>>,
      <<2341>>, <<2342>>, <<2343>>, <<2344>>, <<2346>>, <<2347>>,
      <<2348>>, <<2349>>, <<2350>>, <<2351>>, <<2352>>, <<2354>>,
      <<2357>>, <<2358>>, <<2359>>, <<2360>>, <<2361>>, <<2355>>,
      <<2425>>, <<2426>>, <<2427>>, <<2428>>, <<2430>>, <<2431>>,
      <<3482>>, <<3484>>, <<3487>>, <<3488>>, <<3490>>, <<3495>>,
      <<3497>>, <<3499>>, <<3500>>, <<3501>>, <<3503>>, <<3507>>,
      <<3508>>, <<3510>>, <<3512>>, <<3513>>, <<3514>>, <<3515>>,
      <<3517>>, <<3525>>, <<3520>>, <<3523>>, <<3524>>, <<3483>>,
      <<3485>>, <<3493>>, <<3486>>, <<3489>>, <<3491>>, <<3492>>,
      <<3494>>, <<3496>>, <<3498>>, <<3502>>, <<3504>>, <<3505>>,
      <<3509>>, <<3511>>, <<3521>>, <<3522>>, <<3526>>, <<43431>>,
      <<43413>>, <<43426>>, <<43421>>, <<43410>>, <<43442>>, <<43415>>,
      <<43407>>, <<43437>>, <<43433>>, <<43428>>, <<43418>>, <<43412>>,
      <<43429>>, <<43435>>, <<43441>>, <<43424>>, <<43419>>, <<43438>>,
      <<43434>>, <<43432>>, <<43414>>, <<43411>>, <<43409>>, <<43423>>,
      <<43416>>, <<43430>>, <<43436>>, <<43439>>, <<43425>>, <<43427>>,
      <<43422>>, <<43417>>, <<43440>>, <<43420>>, <<43408>>, <<43401>>,
      <<43402>>, <<43403>>, <<3349>>, <<3350>>, <<3351>>, <<3352>>,
      <<3353>>, <<3354>>, <<3355>>, <<3356>>, <<3357>>, <<3358>>,
      <<3359>>, <<3360>>, <<3361>>, <<3362>>, <<3363>>, <<3364>>,
      <<3365>>, <<3366>>, <<3367>>, <<3368>>, <<3369>>, <<3370>>,
      <<3371>>, <<3372>>, <<3373>>, <<3374>>, <<3375>>, <<3376>>,
      <<3377>>, <<3378>>, <<3379>>, <<3380>>, <<3381>>, <<3382>>,
      <<3383>>, <<3384>>, <<3385>>, <<3386>>, <<3450>>, <<3451>>,
      <<3452>>, <<3453>>, <<3454>>, <<3455>>, <<2474>>, <<2475>>,
      <<2476>>, <<2477>>, <<2468>>, <<2469>>, <<2470>>, <<2471>>,
      <<2463>>, <<2464>>, <<2465>>, <<2466>>, <<2453>>, <<2454>>,
      <<2455>>, <<2456>>, <<2458>>, <<2459>>, <<2460>>, <<2479>>,
      <<2461>>, <<2488>>, <<2486>>, <<2487>>, <<2489>>, <<2478>>,
      <<2472>>, <<2457>>, <<2462>>, <<2467>>, <<2545>>, <<2480>>,
      <<2544>>, <<2482>>, <<2510>>, <<2602>>, <<2605>>, <<2604>>,
      <<2603>>, <<2596>>, <<2599>>, <<2598>>, <<2597>>, <<2586>>,
      <<2589>>, <<2588>>, <<2587>>, <<2591>>, <<2594>>, <<2593>>,
      <<2592>>, <<2581>>, <<2584>>, <<2583>>, <<2582>>, <<2613>>,
      <<2616>>, <<2617>>, <<2606>>, <<2600>>, <<2590>>, <<2595>>,
      <<2585>>, <<2607>>, <<2608>>, <<2652>>, <<2610>>, <<2603, 2620>>,
      <<2588, 2620>>, <<2616, 2620>>, <<2582, 2620>>, <<2583, 2620>>,
      <<2610, 2620>>, <<2674>>, <<2675>> }

\* the UTF-16 code units of a string
HighSurrogate(c) == 55296 + ((c - 65536) \div 1024)
LowSurrogate(c) == 56320 + ((c - 65536) % 1024)

\* s[0] and s[s.length - 1]: a string of one code unit, written as the
\* sequence of that unit, or undefined (here the empty sequence) when s is empty
FirstUnit(s) ==
    IF s = <<>> THEN <<>>
    ELSE IF s[1] > 65535 THEN <<HighSurrogate(s[1])>> ELSE <<s[1]>>
LastUnit(s) ==
    IF s = <<>> THEN <<>>
    ELSE IF s[Len(s)] > 65535 THEN <<LowSurrogate(s[Len(s)])>> ELSE <<s[Len(s)]>>

\* set.has(x) for a string x of one code unit: a member of two code units
\* (a code point beyond U+FFFF, or a string of two characters) is not x
Has(set, x) == x # <<>> /\ x \in {m \in set : Len(m) = 1 /\ m[1] <= 65535}

\* makeGraphemeClusters: the loop from position i on; positions count from 1
RECURSIVE ClusterLoop_FlagKept(_, _, _, _, _)
ClusterLoop_FlagKept(strArray, i, out, clust, prependFlag) ==
    IF i > Len(strArray) THEN Append(out, clust)
    ELSE LET c == <<strArray[i]>>
         IN IF c \in EXTEND_SET \/ c \in SPACING_MARK_SET \/ c \in CONTROL_SET
            THEN ClusterLoop_FlagKept(strArray, i + 1, out, clust \o c, prependFlag)
            ELSE IF c \in PREPEND_SET
            THEN ClusterLoop_FlagKept(strArray, i + 1, Append(out, clust), c, TRUE)
            ELSE IF prependFlag
            THEN ClusterLoop_FlagKept(strArray, i + 1, out, clust \o c, TRUE)
            ELSE ClusterLoop_FlagKept(strArray, i + 1,
                                      IF i > 1 THEN Append(out, clust) ELSE out, c, FALSE)
RECURSIVE ClusterLoop(_, _, _, _, _)
ClusterLoop(strArray, i, out, clust, prependFlag) ==
    IF i > Len(strArray) THEN Append(out, clust)
    ELSE LET c == <<strArray[i]>>
         IN IF c \in EXTEND_SET \/ c \in SPACING_MARK_SET \/ c \in CONTROL_SET
            THEN ClusterLoop(strArray, i + 1, out, clust \o c, prependFlag)
            ELSE IF c \in PREPEND_SET
            THEN ClusterLoop(strArray, i + 1, Append(out, clust), c, TRUE)
            ELSE IF prependFlag
            THEN ClusterLoop(strArray, i + 1, out, clust \o c, FALSE)
            ELSE ClusterLoop(strArray, i + 1,
                             IF i > 1 THEN Append(out, clust) ELSE out, c, FALSE)

makeGraphemeClusters(str) == ClusterLoop(str, 1, <<>>, <<>>, FALSE)

\* v.replace(/pattern/g, replacement)
RECURSIVE ReplaceAll(_, _, _)
ReplaceAll(v, pattern, replacement) ==
    IF Len(v) < Len(pattern) THEN v
    ELSE IF SubSeq(v, 1, Len(pattern)) = pattern
         THEN replacement \o ReplaceAll(SubSeq(v, Len(pattern) + 1, Len(v)),
                                        pattern, replacement)
         ELSE <<v[1]>> \o ReplaceAll(Tail(v), pattern, replacement)

\* "make temporary tokens": the five replacements applied to a cluster
MakeTokens(v) ==
    LET v1 == ReplaceAll(v, <<3530, 8205>>, <<57345>>)
        v2 == ReplaceAll(v1, <<8205, 3530>>, <<57346>>)
        v3 == ReplaceAll(v2, <<2965, 3021, 124, 2999>>, <<57347>>)
        v4 == ReplaceAll(v3, <<3000, 3021, 124, 2992, 3008>>, <<57348>>)
    IN ReplaceAll(v4, <<2998, 3021, 124, 2992, 3008>>, <<57349>>)

\* "reinstate": the five replacements applied to a segment
Reinstate(v) ==
    LET v1 == ReplaceAll(v, <<57345>>, <<3530, 8205>>)
        v2 == ReplaceAll(v1, <<57346>>, <<8205, 3530>>)
        v3 == ReplaceAll(v2, <<57347>>, <<2965, 3021, 2999>>)
        v4 == ReplaceAll(v3, <<57348>>, <<3000, 3021, 2992, 3008>>)
    IN ReplaceAll(v4, <<57349>>, <<2998, 3021, 2992, 3008>>)

\* the test of the merge loop: no boundary between a[i] and a[i + 1]
Joins(left, right) ==
    \/ Has(VIRAMA_SET, LastUnit(left)) /\ Has(CONSONANTS_SET, FirstUnit(right))
    \/ Has(INVISIBLE_STACKER_SET, LastUnit(left))
    \/ Has(EXCEPTIONS_SET, FirstUnit(right))

\* the merge loop of segment from position i on, and the lines after it
RECURSIVE MergeLoop(_, _, _, _)
MergeLoop(a, i, out, clust) ==
    IF i > Len(a) - 1 THEN Append(out, clust \o a[Len(a)])
    ELSE IF Joins(a[i], a[i + 1])
         THEN MergeLoop(a, i + 1, out, clust \o a[i])
         ELSE MergeLoop(a, i + 1, Append(out, clust \o a[i]), <<>>)

\* UnicodeOrthographicSyllablesSegmenter.segment
segment(inputStr) ==
    LET clusters == makeGraphemeClusters(inputStr)
        a == [i \in DOMAIN clusters |-> MakeTokens(clusters[i])]
        out == MergeLoop(a, 1, <<>>, <<>>)
    IN [i \in DOMAIN out |-> Reinstate(out[i])]

\* stringToRenderSegments(inputStr); the clusters of the first phase are kept
\* beside the result
StringToRenderSegments ==
    /\ seg.pc = "called"
    /\ seg' = [seg EXCEPT !.pc = "returned",
                          !.clusters = makeGraphemeClusters(seg.inputStr),
                          !.segments = segment(seg.inputStr)]
    /\ UNCHANGED <<env, family, url, entries, fetches, calls, tab, sdf>>

\* a caller has a string segmented
InitSegmenter ==
    /\ seg \in [pc : {"called"}, inputStr : Strings, clusters : {<<>>},
                 segments : {<<>>}]
    /\ env = CHOOSE e \in Environments : e.family = NoFamily /\ IdHira \in e.ids
    /\ family = env.family
    /\ url = NoUrl
    /\ entries = [s \in Stacks |-> NoEntry]
    /\ fetches = [s \in Stacks |-> [r \in Ranges |-> <<>>]]
    /\ calls = EmptyBag
    /\ tab = NoTable
    /\ sdf = NoDraw

NextSegmenter == StringToRenderSegments

SpecSegmenter == InitSegmenter /\ [][NextSegmenter]_vars

----------------------------------------------------------------------------
(* C17..C20: what stringToRenderSegments returns *)

\* the concatenation of the strings of a list
RECURSIVE Concat(_)
Concat(list) == IF list = <<>> THEN <<>> ELSE Head(list) \o Concat(Tail(list))

Returned == seg.pc = "returned"

\* C17 as claimed: for every input string, private-use code points included,
\* the segments returned, concatenated in order, are the input string.
C17_Lossless == Returned => Concat(seg.segments) = seg.inputStr

\* C18 as claimed: every segment returned is a non-empty string, for every
\* input, the empty string and inputs that begin with a Prepend code point
\* included.
C18_SegmentsNonEmpty ==
    Returned => \A i \in DOMAIN seg.segments : seg.segments[i] # <<>>

\* in none of the eight sets
Ordinary(c) ==
    <<c>> \notin (PREPEND_SET \cup CONTROL_SET \cup EXTEND_SET \cup SPACING_MARK_SET
                    \cup EXCEPTIONS_SET \cup INVISIBLE_STACKER_SET \cup VIRAMA_SET
                    \cup CONSONANTS_SET)

\* C19 as claimed: for an input of a Prepend code point followed by one
\* ordinary code point the only segment returned is the whole input.
C19_PrependGrouping ==
    (/\ Returned /\ Len(seg.inputStr) = 2
     /\ <<seg.inputStr[1]>> \in PREPEND_SET /\ Ordinary(seg.inputStr[2]))
    => seg.segments = <<seg.inputStr>>

\* C20 as claimed: for an input consonant, virama, consonant, with the virama
\* any member of the Virama set and both consonants members of the
\* Consonants set, the only segment returned is the whole input.
C20_ConjunctAtomicity ==
    (/\ Returned /\ Len(seg.inputStr) = 3
     /\ <<seg.inputStr[1]>> \in CONSONANTS_SET
     /\ <<seg.inputStr[2]>> \in VIRAMA_SET
     /\ <<seg.inputStr[3]>> \in CONSONANTS_SET)
    => seg.segments = <<seg.inputStr>>

----------------------------------------------------------------------------
(* C23, C24: the synthesizers of an entry *)

\* the claims' own reading of the dense scripts: CJK Unified Ideographs,
\* Hangul Syllables, Hiragana, Katakana
DenseScript(id) ==
    LET c == CodePointAt0(id)
    IN \/ 19968 <= c /\ c <= 40959
       \/ 44032 <= c /\ c <= 55215
       \/ 12352 <= c /\ c <= 12447
       \/ 12448 <= c /\ c <= 12543

TierOf(id) == IF DenseScript(id) THEN 2 ELSE 1

SynthOf(es, s, t) ==
    IF t = 2 THEN EntryOf(es, s).tinySDF2 ELSE EntryOf(es, s).tinySDF1

\* the positions of the lookups of a call that _tinySDF served at the tier
ServedAt(c, s, t) ==
    {i \in DOMAIN c.lookups :
        c.lookups[i].synth /\ c.lookups[i].stack = s /\ TierOf(c.lookups[i].id) = t}

\* C23, in a state: the synthesizer of a stack's tier has the tier's font
\* size, and every synthesized glyph a lookup holds was drawn by the
\* synthesizer its stack's entry holds for its tier.
C23_State ==
    /\ \A s \in Stacks, t \in {1, 2} :
          SynthOf(entries, s, t) # NoSDF =>
              /\ SynthOf(entries, s, t).stack = s
              /\ SynthOf(entries, s, t).fontSize = 24 * t
    /\ \A x \in LookupsOf(Calls) :
          Lk(x).synth =>
              /\ Lk(x).glyph.bitmap.by = "draw"
              /\ Lk(x).glyph.bitmap.tinySDF =
                    SynthOf(entries, Lk(x).stack, TierOf(Lk(x).id))

\* C23, in a step: a synthesizer that exists is never replaced; one comes to
\* exist only in a getGlyphs call, made for the first lookup of the call that
\* is served at its tier on its stack; and every locally eligible lookup of
\* the call finds or leaves its tier's synthesizer in place.
C23_Step ==
    /\ \A s \in Stacks, t \in {1, 2} :
          /\ SynthOf(entries, s, t) # NoSDF =>
                SynthOf(entries', s, t) = SynthOf(entries, s, t)
          /\ (SynthOf(entries, s, t) = NoSDF /\ SynthOf(entries', s, t) # NoSDF) =>
                /\ IsGetGlyphsStep
                /\ \E c \in AddedCalls :
                      /\ ServedAt(c, s, t) # {}
                      /\ LET first == CHOOSE i \in ServedAt(c, s, t) :
                                          \A k \in ServedAt(c, s, t) : i <= k
                         IN SynthOf(entries', s, t).madeFor = c.lookups[first].id
    /\ IsGetGlyphsStep =>
          \A x \in LookupsOf(AddedCalls) :
              Eligible(Lk(x).id) =>
                  /\ SynthOf(entries', Lk(x).stack, TierOf(Lk(x).id)) # NoSDF
                  /\ Lk(x).glyph.bitmap.tinySDF =
                        SynthOf(entries', Lk(x).stack, TierOf(Lk(x).id))

\* C23: per stack and tier at most one synthesizer ever exists; the first
\* locally eligible lookup at the tier creates it, every later one uses that
\* same instance, and a lookup never creates or replaces the other tier's.
C23_OneSynthesizerPerTier == []C23_State /\ [][C23_Step]_vars

\* two lookups of different ids of the 2x tier drew with one instance, made
\* for one of them, while the 1x tier of the stack has none
C23_Witness ==
    \E x, y \in LookupsOf(Calls) :
        /\ Lk(x).synth /\ Lk(y).synth
        /\ Lk(x).stack = Lk(y).stack
        /\ Lk(x).id = IdHira /\ Lk(y).id = IdKata
        /\ Lk(x).glyph.bitmap.tinySDF = Lk(y).glyph.bitmap.tinySDF
        /\ Lk(y).glyph.bitmap.tinySDF.madeFor = IdHira
        /\ SynthOf(entries, Lk(x).stack, 1) = NoSDF

\* C24: a synthesized glyph reports double resolution and was drawn by the
\* synthesizer of font size 48 exactly when the id's leading code point is in
\* 19968..40959, 44032..55215, 12352..12447 or 12448..12543; every other
\* synthesized glyph reports single resolution, drawn at font size 24.
C24_TierSelection ==
    \A x \in LookupsOf(Calls) :
        Lk(x).synth =>
            /\ Lk(x).glyph.kind = "local"
            /\ Lk(x).glyph.isDoubleResolution = DenseScript(Lk(x).id)
            /\ Lk(x).glyph.bitmap.tinySDF.fontSize =
                  (IF DenseScript(Lk(x).id) THEN 48 ELSE 24)
            /\ Lk(x).glyph.bitmap.tinySDF =
                  (IF DenseScript(Lk(x).id)
                   THEN EntryOf(entries, Lk(x).stack).tinySDF2
                   ELSE EntryOf(entries, Lk(x).stack).tinySDF1)

\* one call looked up a Katakana id and a Gujarati id, each synthesized
C24_Witness ==
    \E c \in Calls :
        \E i, k \in DOMAIN c.lookups :
            /\ c.lookups[i].synth /\ c.lookups[k].synth
            /\ c.lookups[i].id = IdKata /\ c.lookups[k].id = IdGuj
            /\ c.lookups[i].glyph.isDoubleResolution
            /\ ~c.lookups[k].glyph.isDoubleResolution

----------------------------------------------------------------------------
(* C21, C25, C26: the two phases of the segmenter *)

\* in none of the seven sets the claim names
Plain(c) ==
    <<c>> \notin (EXTEND_SET \cup SPACING_MARK_SET \cup CONTROL_SET \cup PREPEND_SET
                    \cup VIRAMA_SET \cup INVISIBLE_STACKER_SET \cup EXCEPTIONS_SET)

\* C21 as claimed: for an input made only of code points that are in none of
\* Extend, SpacingMark, Control, Prepend, Virama, InvisibleStacker and
\* Exceptions, the segments returned are the code points of the input, one
\* segment for each, in the order of the input.
C21_PlainTextSplitting ==
    (Returned /\ \A i \in DOMAIN seg.inputStr : Plain(seg.inputStr[i]))
    => seg.segments = [i \in DOMAIN seg.inputStr |-> <<seg.inputStr[i]>>]

\* the clusters of the first phase as the merge sees them, the placeholders
\* in place
TokenClusters == [i \in DOMAIN seg.clusters |-> MakeTokens(seg.clusters[i])]

\* the segments returned have a boundary after the i-th of the clusters a:
\* some first segments together are the first i clusters
BoundaryAfter(a, i) ==
    \E k \in 1 .. Len(seg.segments) :
        Concat(SubSeq(seg.segments, 1, k)) = Reinstate(Concat(SubSeq(a, 1, i)))

\* rules (a), (b), (c) of the merge, on the code points of two clusters
MergeRule(left, right) ==
    \/ /\ left # <<>> /\ right # <<>>
       /\ <<left[Len(left)]>> \in VIRAMA_SET
       /\ <<right[1]>> \in CONSONANTS_SET
    \/ left # <<>> /\ <<left[Len(left)]>> \in INVISIBLE_STACKER_SET
    \/ right # <<>> /\ <<right[1]>> \in EXCEPTIONS_SET

\* C25 as claimed: between two adjacent clusters there is a boundary in the
\* segments returned if and only if none of (a) the left cluster ends in a
\* Virama code point and the right one begins with a Consonants code point,
\* (b) the left cluster ends in an InvisibleStacker code point, (c) the right
\* cluster begins with an Exceptions code point holds, for every member of
\* those sets, those beyond U+FFFF included.
C25_MergeBoundaries ==
    Returned =>
        \A i \in 1 .. (Len(TokenClusters) - 1) :
            BoundaryAfter(TokenClusters, i)
                <=> ~MergeRule(TokenClusters[i], TokenClusters[i + 1])

\* the classes of the first phase
Mark(c) == <<c>> \in (EXTEND_SET \cup SPACING_MARK_SET \cup CONTROL_SET)
Prepends(c) == ~Mark(c) /\ <<c>> \in PREPEND_SET
Other(c) == ~Mark(c) /\ ~Prepends(c)

\* the positions of the input, counted from 1, at which a cluster starts
ClusterStarts ==
    {1 + Len(Concat(SubSeq(seg.clusters, 1, k))) :
        k \in {j \in 0 .. (Len(seg.clusters) - 1) : seg.clusters[j + 1] # <<>>}}

\* a Prepend code point before position p is still waiting for its code point
PendingAt(p) ==
    \E r \in 1 .. (p - 1) :
        /\ Prepends(seg.inputStr[r])
        /\ \A t \in (r + 1) .. (p - 1) : Mark(seg.inputStr[t])

\* C26: in the clusters of the first phase, a code point of Extend,
\* SpacingMark or Control starts no cluster unless it is the first of the
\* input; a Prepend code point starts a cluster and the next other code point
\* joins it; any other code point with no Prepend pending starts a cluster;
\* and the clusters, concatenated in order, are the input.
C26_Clustering ==
    Returned =>
        /\ Concat(seg.clusters) = seg.inputStr
        /\ \A p \in DOMAIN seg.inputStr :
              LET c == seg.inputStr[p]
              IN /\ (Mark(c) /\ p > 1) => p \notin ClusterStarts
                 /\ Prepends(c) => p \in ClusterStarts
                 /\ (Other(c) /\ PendingAt(p)) => p \notin ClusterStarts
                 /\ (Other(c) /\ ~PendingAt(p)) => p \in ClusterStarts

\* a Prepend code point, a mark, and the code point that joins them, returned
\* as one cluster
C26_Witness ==
    /\ Returned
    /\ \E p \in DOMAIN seg.inputStr :
          /\ p > 2 /\ Other(seg.inputStr[p]) /\ PendingAt(p)
          /\ Mark(seg.inputStr[p - 1])
          /\ seg.clusters[Len(seg.clusters)] = SubSeq(seg.inputStr, p - 2, p)

----------------------------------------------------------------------------
(* The construction of the code point sets: the function that initialises
   SETS.  A line of the property list is written as the sequence of its
   characters. *)

\* RAW_PROPERTY_LIST.split('\n'): the first and the last lines of the list,
\* and from the lines between them the comments, blank lines and entries below,
\* in the order of the list
PropertyLines ==
  <<
    <<>>,
    <<"#", " ", "G", "r", "a", "p", "h", "e", "m", "e", "B", "r", "e", "a",
       "k", "P", "r", "o", "p", "e", "r", "t", "y", "-", "1", "5", ".", "1",
       ".", "0", ".", "t", "x", "t">>,
    <<"#">>,
    <<"#", " ", "P", "r", "o", "p", "e", "r", "t", "y", ":", "\t", "G", "r",
       "a", "p", "h", "e", "m", "e", "_", "C", "l", "u", "s", "t", "e", "r",
       "_", "B", "r", "e", "a", "k">>,
    <<"#", " ", "@", "m", "i", "s", "s", "i", "n", "g", ":", " ", "0", "0",
       "0", "0", ".", ".", "1", "0", "F", "F", "F", "F", ";", " ", "O", "t",
       "h", "e", "r">>,
    <<"0", "6", "0", "0", ".", ".", "0", "6", "0", "5", " ", " ", " ", " ",
       ";", " ", "P", "r", "e", "p", "e", "n", "d", " ", "#", " ", "C", "f",
       " ", " ", " ", "[", "6", "]", " ", "A", "R", "A", "B", "I", "C", " ",
       "N", "U", "M", "B", "E", "R", " ", "S", "I", "G", "N", ".", ".", "A",
       "R", "A", "B", "I", "C", " ", "N", "U", "M", "B", "E", "R", " ", "M",
       "A", "R", "K", " ", "A", "B", "O", "V", "E">>,
    <<"0", "6", "D", "D", " ", " ", " ", " ", " ", " ", " ", " ", " ", " ",
       ";", " ", "P", "r", "e", "p", "e", "n", "d", " ", "#", " ", "C", "f",
       " ", " ", " ", " ", " ", " ", " ", "A", "R", "A", "B", "I", "C", " ",
       "E", "N", "D", " ", "O", "F", " ", "A", "Y", "A", "H">>,
    <<"0", "8", "9", "0", ".", ".", "0", "8", "9", "1", " ", " ", " ", " ",
       ";", " ", "P", "r", "e", "p", "e", "n", "d", " ", "#", " ", "C", "f",
       " ", " ", " ", "[", "2", "]", " ", "A", "R", "A", "B", "I", "C", " ",
       "P", "O", "U", "N", "D", " ", "M", "A", "R", "K", " ", "A", "B", "O",
       "V", "E", ".", ".", "A", "R", "A", "B", "I", "C", " ", "P", "I", "A",
       "S", "T", "R", "E", " ", "M", "A", "R", "K", " ", "A", "B", "O", "V",
       "E">>,
    <<"#", " ", "T", "o", "t", "a", "l", " ", "c", "o", "d", "e", " ", "p",
       "o", "i", "n", "t", "s", ":", " ", "2", "7">>,
    <<>>,
    <<"0", "0", "0", "D", " ", " ", " ", " ", " ", " ", " ", " ", " ", " ",
       ";", " ", "C", "R", " ", "#", " ", "C", "c", " ", " ", " ", " ", " ",
       " ", " ", "<", "c", "o", "n", "t", "r", "o", "l", "-", "0", "0", "0",
       "D", ">">>,
    <<"0", "0", "0", "A", " ", " ", " ", " ", " ", " ", " ", " ", " ", " ",
       ";", " ", "L", "F", " ", "#", " ", "C", "c", " ", " ", " ", " ", " ",
       " ", " ", "<", "c", "o", "n", "t", "r", "o", "l", "-", "0", "0", "0",
       "A", ">">>,
    <<"0", "0", "0", "0", ".", ".", "0", "0", "0", "9", " ", " ", " ", " ",
       ";", " ", "C", "o", "n", "t", "r", "o", "l", " ", "#", " ", "C", "c",
       " ", " ", "[", "1", "0", "]", " ", "<", "c", "o", "n", "t", "r", "o",
       "l", "-", "0", "0", "0", "0", ">", ".", ".", "<", "c", "o", "n", "t",
       "r", "o", "l", "-", "0", "0", "0", "9", ">">>,
    <<"0", "0", "0", "B", ".", ".", "0", "0", "0", "C", " ", " ", " ", " ",
       ";", " ", "C", "o", "n", "t", "r", "o", "l", " ", "#", " ", "C", "c",
       " ", " ", " ", "[", "2", "]", " ", "<", "c", "o", "n", "t", "r", "o",
       "l", "-", "0", "0", "0", "B", ">", ".", ".", "<", "c", "o", "n", "t",
       "r", "o", "l", "-", "0", "0", "0", "C", ">">>,
    <<"0", "0", "0", "E", ".", ".", "0", "0", "1", "F", " ", " ", " ", " ",
       ";", " ", "C", "o", "n", "t", "r", "o", "l", " ", "#", " ", "C", "c",
       " ", " ", "[", "1", "8", "]", " ", "<", "c", "o", "n", "t", "r", "o",
       "l", "-", "0", "0", "0", "E", ">", ".", ".", "<", "c", "o", "n", "t",
       "r", "o", "l", "-", "0", "0", "1", "F", ">">>,
    <<"0", "0", "7", "F", ".", ".", "0", "0", "9", "F", " ", " ", " ", " ",
       ";", " ", "C", "o", "n", "t", "r", "o", "l", " ", "#", " ", "C", "c",
       " ", " ", "[", "3", "3", "]", " ", "<", "c", "o", "n", "t", "r", "o",
       "l", "-", "0", "0", "7", "F", ">", ".", ".", "<", "c", "o", "n", "t",
       "r", "o", "l", "-", "0", "0", "9", "F", ">">>,
    <<"2", "0", "0", "E", ".", ".", "2", "0", "0", "F", " ", " ", " ", " ",
       ";", " ", "C", "o", "n", "t", "r", "o", "l", " ", "#", " ", "C", "f",
       " ", " ", " ", "[", "2", "]", " ", "L", "E", "F", "T", "-", "T", "O",
       "-", "R", "I", "G", "H", "T", " ", "M", "A", "R", "K", ".", ".", "R",
       "I", "G", "H", "T", "-", "T", "O", "-", "L", "E", "F", "T", " ", "M",
       "A", "R", "K">>,
    <<"#", " ", "T", "o", "t", "a", "l", " ", "c", "o", "d", "e", " ", "p",
       "o", "i", "n", "t", "s", ":", " ", "3", "8", "9", "3">>,
    <<>>,
    <<"0", "9", "4", "D", " ", " ", " ", " ", " ", " ", " ", " ", " ", " ",
       ";", " ", "E", "x", "t", "e", "n", "d", " ", "#", " ", "M", "n", " ",
       " ", " ", " ", " ", " ", " ", "D", "E", "V", "A", "N", "A", "G", "A",
       "R", "I", " ", "S", "I", "G", "N", " ", "V", "I", "R", "A", "M", "A">>,
    <<"0", "D", "C", "A", " ", " ", " ", " ", " ", " ", " ", " ", " ", " ",
       ";", " ", "E", "x", "t", "e", "n", "d", " ", "#", " ", "M", "n", " ",
       " ", " ", " ", " ", " ", " ", "S", "I", "N", "H", "A", "L", "A", " ",
       "S", "I", "G", "N", " ", "A", "L", "-", "L", "A", "K", "U", "N", "A">>,
    <<"1", "0", "3", "9", ".", ".", "1", "0", "3", "A", " ", " ", " ", " ",
       ";", " ", "E", "x", "t", "e", "n", "d", " ", "#", " ", "M", "n", " ",
       " ", " ", "[", "2", "]", " ", "M", "Y", "A", "N", "M", "A", "R", " ",
       "S", "I", "G", "N", " ", "V", "I", "R", "A", "M", "A", ".", ".", "M",
       "Y", "A", "N", "M", "A", "R", " ", "S", "I", "G", "N", " ", "A", "S",
       "A", "T">>,
    <<"1", "1", "0", "B", "9", ".", ".", "1", "1", "0", "B", "A", " ", " ",
       ";", " ", "E", "x", "t", "e", "n", "d", " ", "#", " ", "M", "n", " ",
       " ", " ", "[", "2", "]", " ", "K", "A", "I", "T", "H", "I", " ", "S",
       "I", "G", "N", " ", "V", "I", "R", "A", "M", "A", ".", ".", "K", "A",
       "I", "T", "H", "I", " ", "S", "I", "G", "N", " ", "N", "U", "K", "T",
       "A">>,
    <<"1", "F", "1", "E", "6", ".", ".", "1", "F", "1", "F", "F", " ", " ",
       ";", " ", "R", "e", "g", "i", "o", "n", "a", "l", "_", "I", "n", "d",
       "i", "c", "a", "t", "o", "r", " ", "#", " ", "S", "o", " ", " ", "[",
       "2", "6", "]", " ", "R", "E", "G", "I", "O", "N", "A", "L", " ", "I",
       "N", "D", "I", "C", "A", "T", "O", "R", " ", "S", "Y", "M", "B", "O",
       "L", " ", "L", "E", "T", "T", "E", "R", " ", "A", ".", ".", "R", "E",
       "G", "I", "O", "N", "A", "L", " ", "I", "N", "D", "I", "C", "A", "T",
       "O", "R", " ", "S", "Y", "M", "B", "O", "L", " ", "L", "E", "T", "T",
       "E", "R", " ", "Z">>,
    <<"0", "9", "3", "E", ".", ".", "0", "9", "4", "0", " ", " ", " ", " ",
       ";", " ", "S", "p", "a", "c", "i", "n", "g", "M", "a", "r", "k", " ",
       "#", " ", "M", "c", " ", " ", " ", "[", "3", "]", " ", "D", "E", "V",
       "A", "N", "A", "G", "A", "R", "I", " ", "V", "O", "W", "E", "L", " ",
       "S", "I", "G", "N", " ", "A", "A", ".", ".", "D", "E", "V", "A", "N",
       "A", "G", "A", "R", "I", " ", "V", "O", "W", "E", "L", " ", "S", "I",
       "G", "N", " ", "I", "I">>,
    <<"1", "1", "0", "0", ".", ".", "1", "1", "5", "F", " ", " ", " ", " ",
       ";", " ", "L", " ", "#", " ", "L", "o", " ", " ", "[", "9", "6", "]",
       " ", "H", "A", "N", "G", "U", "L", " ", "C", "H", "O", "S", "E", "O",
       "N", "G", " ", "K", "I", "Y", "E", "O", "K", ".", ".", "H", "A", "N",
       "G", "U", "L", " ", "C", "H", "O", "S", "E", "O", "N", "G", " ", "F",
       "I", "L", "L", "E", "R">>,
    <<"D", "7", "8", "9", ".", ".", "D", "7", "A", "3", " ", " ", " ", " ",
       ";", " ", "L", "V", "T", " ", "#", " ", "L", "o", " ", " ", "[", "2",
       "7", "]", " ", "H", "A", "N", "G", "U", "L", " ", "S", "Y", "L", "L",
       "A", "B", "L", "E", " ", "H", "I", "G", ".", ".", "H", "A", "N", "G",
       "U", "L", " ", "S", "Y", "L", "L", "A", "B", "L", "E", " ", "H", "I",
       "H">>,
    <<"2", "0", "0", "D", " ", " ", " ", " ", " ", " ", " ", " ", " ", " ",
       ";", " ", "Z", "W", "J", " ", "#", " ", "C", "f", " ", " ", " ", " ",
       " ", " ", " ", "Z", "E", "R", "O", " ", "W", "I", "D", "T", "H", " ",
       "J", "O", "I", "N", "E", "R">>,
    <<>>,
    <<"#", " ", "E", "O", "F">>,
    <<>>
  >>

\* the keys of the object sets: the members of SetType
SetTypes ==
    {"Prepend", "Control", "Extend", "SpacingMark", "Exceptions",
     "InvisibleStacker", "Virama", "Consonants"}

\* the characters of a key
KeyCharacters ==
    [k \in SetTypes |->
        CASE k = "Prepend" -> <<"P", "r", "e", "p", "e", "n", "d">>
          [] k = "Control" -> <<"C", "o", "n", "t", "r", "o", "l">>
          [] k = "Extend" -> <<"E", "x", "t", "e", "n", "d">>
          [] k = "SpacingMark" ->
                <<"S", "p", "a", "c", "i", "n", "g", "M", "a", "r", "k">>
          [] k = "Exceptions" ->
                <<"E", "x", "c", "e", "p", "t", "i", "o", "n", "s">>
          [] k = "InvisibleStacker" ->
                <<"I", "n", "v", "i", "s", "i", "b", "l", "e", "S", "t", "a",
                  "c", "k", "e", "r">>
          [] k = "Virama" -> <<"V", "i", "r", "a", "m", "a">>
          [] k = "Consonants" ->
                <<"C", "o", "n", "s", "o", "n", "a", "n", "t", "s">>]

\* the sets as the declarations of lines 2213-2235 leave them
DeclaredSets ==
    [k \in SetTypes |->
        CASE k = "Exceptions" -> EXCEPTIONS_SET
          [] k = "InvisibleStacker" -> INVISIBLE_STACKER_SET
          [] k = "Virama" -> VIRAMA_SET
          [] k = "Consonants" -> CONSONANTS_SET
          [] OTHER -> {}]

\* \s, for the characters of the list
WhiteSpaceCharacter(ch) == ch \in {" ", "\t"}

\* the k-th, counted from 1, of a set of positions
Kth(positions, k) ==
    CHOOSE i \in positions : Cardinality({j \in positions : j <= i}) = k

\* s.replace(/\s+/g, ' '): of every run of white space its first character
\* stays, as a space
CollapseWhiteSpace(s) ==
    LET kept == {i \in DOMAIN s :
                    ~(/\ WhiteSpaceCharacter(s[i])
                      /\ i > 1 /\ WhiteSpaceCharacter(s[i - 1]))}
    IN  [k \in 1 .. Cardinality(kept) |->
            IF WhiteSpaceCharacter(s[Kth(kept, k)]) THEN " " ELSE s[Kth(kept, k)]]

\* s.split(sep) for a separator of one character: the parts between the
\* separators, empty parts included
Split(s, sep) ==
    LET at == {i \in DOMAIN s : s[i] = sep}
        n == Cardinality(at)
    IN  [k \in 1 .. (n + 1) |->
            SubSeq(s, (IF k = 1 THEN 0 ELSE Kth(at, k - 1)) + 1,
                      (IF k = n + 1 THEN Len(s) + 1 ELSE Kth(at, k)) - 1)]

\* s.startsWith(ch)
StartsWith(s, ch) == s # <<>> /\ Head(s) = ch

\* s.includes(pattern)
Includes(s, pattern) ==
    \E k \in 1 .. (Len(s) - Len(pattern) + 1) :
        SubSeq(s, k, k + Len(pattern) - 1) = pattern

\* array[index], index counted from 0; undefined, written as the empty
\* string, beyond the end (no key of sets is the empty string)
At(array, index) == IF index < Len(array) THEN array[index + 1] ELSE <<>>

\* the digits of base 16
HexDigits ==
    <<{"0"}, {"1"}, {"2"}, {"3"}, {"4"}, {"5"}, {"6"}, {"7"}, {"8"}, {"9"},
      {"A", "a"}, {"B", "b"}, {"C", "c"}, {"D", "d"}, {"E", "e"}, {"F", "f"}>>
IsHexDigit(ch) == \E d \in 1 .. 16 : ch \in HexDigits[d]
HexValue(ch) == (CHOOSE d \in 1 .. 16 : ch \in HexDigits[d]) - 1

\* parseInt(s, 16) reads the digits s begins with; NaN when there is none
NaN == -1
RECURSIVE ParseDigits(_, _)
ParseDigits(s, value) ==
    IF s = <<>> \/ ~IsHexDigit(Head(s)) THEN value
    ELSE ParseDigits(Tail(s), 16 * value + HexValue(Head(s)))
ParseInt16(s) ==
    IF s = <<>> \/ ~IsHexDigit(Head(s)) THEN NaN ELSE ParseDigits(s, 0)

\* type in sets (no category of the list is the name of a property that an
\* object inherits)
TypeInSets(type) == \E k \in SetTypes : KeyCharacters[k] = type
KeyOf(type) == CHOOSE k \in SetTypes : KeyCharacters[k] = type

\* the test of the loop of line 2263
LoopTest_Exclusive(j, end) == j # NaN /\ end # NaN /\ j < end
LoopTest(j, end) == j # NaN /\ end # NaN /\ j < end + 1

\* sets[type].add(String.fromCodePoint(c))
AddTo(sets, type, c) == [sets EXCEPT ![KeyOf(type)] = @ \cup {<<c>>}]

\* the function starts: sets is made of the declared sets, the loop over the
\* lines is at its first line
TableStart ==
    [pc |-> "lines", i |-> 0, type |-> <<>>, start |-> 0, end |-> 0,
     sets |-> DeclaredSets]

\* lines 2251-2262 and 2267-2269: one line of the list that is not a range of
\* a known category, or such a line up to its loop
ParseLine ==
    /\ tab.pc = "lines"
    /\ tab.i < Len(PropertyLines)
    /\ LET line == CollapseWhiteSpace(At(PropertyLines, tab.i))
           spaceArray == Split(line, " ")
           type == At(spaceArray, 2)
           next == [tab EXCEPT !.i = @ + 1]
       IN  IF line = <<>> \/ StartsWith(line, "#") THEN tab' = next
           ELSE IF ~TypeInSets(type) THEN tab' = next
           ELSE IF Includes(At(spaceArray, 0), <<".", ".">>)
           THEN LET cpoints == Split(At(spaceArray, 0), ".")
                    start == ParseInt16(At(cpoints, 0))
                    end == ParseInt16(At(cpoints, 2))
                IN  IF LoopTest(start, end)
                    THEN tab' = [tab EXCEPT !.pc = "range", !.type = type,
                                            !.start = start, !.end = end]
                    ELSE tab' = next
           ELSE LET c == ParseInt16(At(spaceArray, 0))
                IN  IF c = NaN THEN tab' = [tab EXCEPT !.pc = "thrown"]
                    ELSE tab' = [next EXCEPT !.sets = AddTo(tab.sets, type, c)]
    /\ UNCHANGED <<env, family, url, entries, fetches, calls, seg, sdf>>

\* lines 2263-2266: one turn of the loop over a range
AddCodePoint ==
    /\ tab.pc = "range"
    /\ tab' = IF LoopTest(tab.start + 1, tab.end)
              THEN [tab EXCEPT !.sets = AddTo(tab.sets, tab.type, tab.start),
                               !.start = @ + 1]
              ELSE [tab EXCEPT !.sets = AddTo(tab.sets, tab.type, tab.start),
                               !.start = @ + 1, !.pc = "lines", !.i = @ + 1]
    /\ UNCHANGED <<env, family, url, entries, fetches, calls, seg, sdf>>

\* lines 2272-2276, after the last line of the list
AddMarkers ==
    /\ tab.pc = "lines"
    /\ tab.i >= Len(PropertyLines)
    /\ tab' = [tab EXCEPT !.pc = "done",
                          !.sets["Extend"] = @ \cup {<<57350>>, <<57351>>}]
    /\ UNCHANGED <<env, family, url, entries, fetches, calls, seg, sdf>>

\* the manager and the segmenter at rest
AtRest ==
    /\ env = CHOOSE e \in Environments : e.family = NoFamily /\ IdHira \in e.ids
    /\ family = env.family
    /\ url = NoUrl
    /\ entries = [s \in Stacks |-> NoEntry]
    /\ fetches = [s \in Stacks |-> [r \in Ranges |-> <<>>]]
    /\ calls = EmptyBag

InitTable ==
    /\ tab = TableStart
    /\ seg = NoSegmentation
    /\ sdf = NoDraw
    /\ AtRest

NextTable == ParseLine \/ AddCodePoint \/ AddMarkers

SpecTable == InitTable /\ [][NextTable]_vars

----------------------------------------------------------------------------
(* C30: what each line of the property list adds *)

\* what the lines of PropertyLines say, line by line: a blank line, a comment,
\* or an entry of a category for the code points first .. last
LineMeanings ==
  <<
    [kind |-> "blank", category |-> "", first |-> 0, last |-> 0],
    [kind |-> "comment", category |-> "", first |-> 0, last |-> 0],
    [kind |-> "comment", category |-> "", first |-> 0, last |-> 0],
    [kind |-> "comment", category |-> "", first |-> 0, last |-> 0],
    [kind |-> "comment", category |-> "", first |-> 0, last |-> 0],
    [kind |-> "entry", category |-> "Prepend", first |-> 1536, last |-> 1541],
    [kind |-> "entry", category |-> "Prepend", first |-> 1757, last |-> 1757],
    [kind |-> "entry", category |-> "Prepend", first |-> 2192, last |-> 2193],
    [kind |-> "comment", category |-> "", first |-> 0, last |-> 0],
    [kind |-> "blank", category |-> "", first |-> 0, last |-> 0],
    [kind |-> "entry", category |-> "CR", first |-> 13, last |-> 13],
    [kind |-> "entry", category |-> "LF", first |-> 10, last |-> 10],
    [kind |-> "entry", category |-> "Control", first |-> 0, last |-> 9],
    [kind |-> "entry", category |-> "Control", first |-> 11, last |-> 12],
    [kind |-> "entry", category |-> "Control", first |-> 14, last |-> 31],
    [kind |-> "entry", category |-> "Control", first |-> 127, last |-> 159],
    [kind |-> "entry", category |-> "Control", first |-> 8206, last |-> 8207],
    [kind |-> "comment", category |-> "", first |-> 0, last |-> 0],
    [kind |-> "blank", category |-> "", first |-> 0, last |-> 0],
    [kind |-> "entry", category |-> "Extend", first |-> 2381, last |-> 2381],
    [kind |-> "entry", category |-> "Extend", first |-> 3530, last |-> 3530],
    [kind |-> "entry", category |-> "Extend", first |-> 4153, last |-> 4154],
    [kind |-> "entry", category |-> "Extend", first |-> 69817, last |-> 69818],
    [kind |-> "entry", category |-> "Regional_Indicator", first |-> 127462, last |-> 127487],
    [kind |-> "entry", category |-> "SpacingMark", first |-> 2366, last |-> 2368],
    [kind |-> "entry", category |-> "L", first |-> 4352, last |-> 4447],
    [kind |-> "entry", category |-> "LVT", first |-> 55177, last |-> 55203],
    [kind |-> "entry", category |-> "ZWJ", first |-> 8205, last |-> 8205],
    [kind |-> "blank", category |-> "", first |-> 0, last |-> 0],
    [kind |-> "comment", category |-> "", first |-> 0, last |-> 0],
    [kind |-> "blank", category |-> "", first |-> 0, last |-> 0]
  >>

\* the code points the first n lines give to the set k
Listed(k, n) ==
    UNION {FromCodePoints(LineMeanings[m].first, LineMeanings[m].last) :
            m \in {x \in 1 .. n : /\ LineMeanings[x].kind = "entry"
                                  /\ LineMeanings[x].category = k}}

\* C30: while the list is read, and afterwards, every set holds what it was
\* declared with and what the lines read so far list for it, and nothing
\* else: a blank line, a comment and a line of an unknown category add
\* nothing, a range A..B adds every code point from A to B, a single token
\* adds that code point, each to the set of the line's category only; once
\* the list is read, U+E006 and U+E007, and nothing else, are added to Extend.
C30_TableConstruction ==
    tab.pc \in {"lines", "range", "done"} =>
        \A k \in SetTypes :
            tab.sets[k] =
                DeclaredSets[k] \cup Listed(k, tab.i)
                \cup (IF tab.pc = "range" /\ LineMeanings[tab.i + 1].category = k
                      THEN FromCodePoints(LineMeanings[tab.i + 1].first, tab.start - 1)
                      ELSE {})
                \cup (IF tab.pc = "done" /\ k = "Extend"
                      THEN {<<57350>>, <<57351>>} ELSE {})

\* the list has been read to its end, ranges, single code points, comments,
\* blank lines and lines of unknown categories among its lines
C30_Witness ==
    /\ tab.pc = "done"
    /\ tab.i = Len(LineMeanings)
    /\ <<1541>> \in tab.sets["Prepend"]
    /\ <<2381>> \in tab.sets["Extend"]
    /\ <<57351>> \in tab.sets["Extend"]
    /\ <<8205>> \notin UNION {tab.sets[k] : k \in SetTypes}

----------------------------------------------------------------------------
(* TinySDF and the distance transform (part_000, lines 359-524).

   Numbers.  A Float64 is modelled as one of
     [t |-> "fin",  n, d]   the rational n / d, d > 0,
     [t |-> "huge", n, d]   n * 1e20 / d, d > 0: what is left of INF after the
                            additions and divisions edt1d performs; adding a
                            small integer to it is absorbed by rounding
                            (the spacing of doubles at 1e20 is 16384),
     [t |-> "nan"]          NaN, and undefined read from beyond a typed array
                            once it enters arithmetic.
   The cells of a grid are multiples of 1 / Unit: the squares of 0.5 - a for
   the alpha values a the model draws are multiples of 1/36. *)

Unit == 36

Fin(n, d) == [t |-> "fin", n |-> n, d |-> d]
NaNValue  == [t |-> "nan"]
\* const INF = 1e20
INF    == [t |-> "huge", n |-> 1, d |-> 1]
Zero   == Fin(0, Unit)

\* a - b of two cells of a grid
Minus(a, b) ==
    IF a.t = "nan" \/ b.t = "nan" THEN NaNValue
    ELSE IF a.t = "huge" /\ b.t = "huge" THEN Fin(a.n * b.d - b.n * a.d, a.d * b.d)
    ELSE IF a.t = "huge" THEN a
    ELSE IF b.t = "huge" THEN [b EXCEPT !.n = 0 - b.n]
    ELSE Fin(a.n * b.d - b.n * a.d, a.d * b.d)

\* a + k for an integer k
PlusInt(a, k) ==
    IF a.t = "nan" THEN NaNValue
    ELSE IF a.t = "huge" THEN a
    ELSE Fin(a.n + k * a.d, a.d)

\* a / k for an integer k > 0
DivInt(a, k) == IF a.t = "nan" THEN NaNValue ELSE [a EXCEPT !.d = a.d * k]

\* a <= b and a < b; false when either is NaN
LessEq(a, b) ==
    /\ a.t # "nan" /\ b.t # "nan"
    /\ IF a.t = b.t THEN a.n * b.d <= b.n * a.d
       ELSE IF a.t = "huge" THEN a.n < 0
       ELSE b.n > 0
Less(a, b) ==
    /\ a.t # "nan" /\ b.t # "nan"
    /\ IF a.t = b.t THEN a.n * b.d < b.n * a.d
       ELSE IF a.t = "huge" THEN a.n < 0
       ELSE b.n > 0

(* Typed arrays are functions on 0 .. length - 1.  A read beyond the end
   gives undefined and a write beyond the end is ignored.  NoIndex stands
   for undefined where an index is expected (an element read from beyond v). *)
NoIndex == -1
\* A const of the source is computed once and then holds a value: Const({e})
\* is the value of e, and in Const({e : x \in {d}}) the name x holds the
\* value of d while e is computed.  An array is computed element by element
\* when it is made, which the comparison a = a stands for.
Const(S) == CHOOSE x \in S : TRUE
NewArray(length, x) == CHOOSE a \in {[i \in 0 .. (length - 1) |-> x]} : a = a
Within(a, i) == i \in DOMAIN a
Get(a, i) == IF Within(a, i) THEN a[i] ELSE NaNValue
GetIndex(v, k) == IF Within(v, k) THEN v[k] ELSE NoIndex
Put(array, i, x) ==
    Const({IF Within(a, i) THEN [a EXCEPT ![i] = x] ELSE a : a \in {array}})

(* edt1d works on m = [grid, f, v, z, k, oob]: the grid, the three scratch
   arrays, the loop variable k, and whether an index beyond an array has
   been used. *)

\* lines 506-509: the do-while that pops the hull; gives k, s and the
\* indices it used
RECURSIVE Pop(_, _, _)
Pop(m, q, k) ==
    LET r == GetIndex(m.v, k)
        fr == IF r = NoIndex THEN NaNValue ELSE Get(m.f, r)
        s == IF r = NoIndex THEN NaNValue
             ELSE DivInt(DivInt(PlusInt(PlusInt(Minus(Get(m.f, q), fr), q * q),
                                       0 - r * r), q - r), 2)
        oob == \/ ~Within(m.v, k) \/ ~Within(m.f, q) \/ ~Within(m.z, k)
               \/ (r # NoIndex /\ ~Within(m.f, r))
    IN IF LessEq(s, Get(m.z, k))
       THEN IF k - 1 > -1
            THEN [Pop(m, q, k - 1) EXCEPT !.oob = @ \/ oob]
            ELSE [k |-> k - 1, s |-> s, oob |-> oob]
       ELSE [k |-> k, s |-> s, oob |-> oob]

(* The for loops run over a range of the loop variable.  A range is done as
   its lower half followed by its upper half, which is the order of the
   loop. *)

\* lines 504-515: the body of the first loop for q, with k in m.k
EnvelopeStep(grids, offset, stride, index) ==
    Const({Const({Const({
        [m1 EXCEPT !.v = Put(m1.v, p.k + 1, q),
                   !.z = Put(Put(m1.z, p.k + 1, p.s), p.k + 2, INF),
                   !.k = p.k + 1,
                   !.oob = @ \/ p.oob \/ ~Within(m1.v, p.k + 1)
                             \/ ~Within(m1.z, p.k + 2)] :
        p \in {Pop(m1, q, m.k)}}) :
        m1 \in {[m EXCEPT !.f = Put(m.f, q, Get(m.grid, cell)),
                          !.oob = @ \/ ~Within(m.f, q) \/ ~Within(m.grid, cell)]}}) :
        m \in {grids}, q \in {index}, cell \in {offset + index * stride}})

\* lines 503-516: the first loop for q = lo .. hi
RECURSIVE Envelope(_, _, _, _, _)
Envelope(grids, offset, stride, first, last) ==
    Const({IF lo > hi THEN m
           ELSE IF lo = hi THEN EnvelopeStep(m, offset, stride, lo)
           ELSE Envelope(Envelope(m, offset, stride, lo, (lo + hi) \div 2),
                         offset, stride, (lo + hi) \div 2 + 1, hi) :
           m \in {grids}, lo \in {first}, hi \in {last}})

\* line 519: while (z[k + 1] < q) k++
RECURSIVE Advance(_, _, _)
Advance(z, q, k) ==
    IF Less(Get(z, k + 1), Fin(q, 1)) THEN Advance(z, q, k + 1) ELSE k

\* lines 519-522: the body of the second loop for q, with k in m.k
FillStep(grids, offset, stride, index) ==
    Const({Const({Const({
        [m EXCEPT !.grid = Put(m.grid, cell,
                               IF r = NoIndex THEN NaNValue
                               ELSE PlusInt(Get(m.f, r), (q - r) * (q - r))),
                  !.k = k1,
                  !.oob = @ \/ ~Within(m.z, k1 + 1) \/ ~Within(m.v, k1)
                            \/ (r # NoIndex /\ ~Within(m.f, r))
                            \/ ~Within(m.grid, cell)] :
        r \in {GetIndex(m.v, k1)}}) :
        k1 \in {Advance(m.z, q, m.k)}}) :
        m \in {grids}, q \in {index}, cell \in {offset + index * stride}})

\* lines 518-523: the second loop for q = lo .. hi
RECURSIVE Fill(_, _, _, _, _)
Fill(grids, offset, stride, first, last) ==
    Const({IF lo > hi THEN m
           ELSE IF lo = hi THEN FillStep(m, offset, stride, lo)
           ELSE Fill(Fill(m, offset, stride, lo, (lo + hi) \div 2),
                     offset, stride, (lo + hi) \div 2 + 1, hi) :
           m \in {grids}, lo \in {first}, hi \in {last}})

\* function edt1d(grid, offset, stride, length, f, v, z)
Edt1d(grids, start, step, length) ==
    Const({Const({
        Fill([Envelope(m0, offset, stride, 1, length - 1) EXCEPT !.k = 0],
             offset, stride, 0, length - 1) :
        m0 \in {[m EXCEPT !.v = Put(m.v, 0, 0),
                          !.z = Put(Put(m.z, 0, [INF EXCEPT !.n = -1]), 1, INF),
                          !.f = Put(m.f, 0, Get(m.grid, offset)),
                          !.k = 0,
                          !.oob = @ \/ ~Within(m.v, 0) \/ ~Within(m.z, 1)
                                    \/ ~Within(m.f, 0) \/ ~Within(m.grid, offset)]}}) :
        m \in {grids}, offset \in {start}, stride \in {step}})

\* line 493: the columns x = lo .. hi
RECURSIVE Columns(_, _, _, _, _, _)
Columns(grids, first, last, y0, height, gridSize) ==
    Const({IF lo > hi THEN m
           ELSE IF lo = hi THEN Edt1d(m, y0 * gridSize + lo, gridSize, height)
           ELSE Columns(Columns(m, lo, (lo + hi) \div 2, y0, height, gridSize),
                        (lo + hi) \div 2 + 1, hi, y0, height, gridSize) :
           m \in {grids}, lo \in {first}, hi \in {last}})

\* line 494: the rows y = lo .. hi
RECURSIVE Rows(_, _, _, _, _, _)
Rows(grids, first, last, x0, width, gridSize) ==
    Const({IF lo > hi THEN m
           ELSE IF lo = hi THEN Edt1d(m, lo * gridSize + x0, 1, width)
           ELSE Rows(Rows(m, lo, (lo + hi) \div 2, x0, width, gridSize),
                     (lo + hi) \div 2 + 1, hi, x0, width, gridSize) :
           m \in {grids}, lo \in {first}, hi \in {last}})

\* function edt(data, x0, y0, width, height, gridSize, f, v, z)
Edt(m, x0, y0, width, height, gridSize) ==
    Rows(Columns(m, x0, x0 + width - 1, y0, height, gridSize),
         y0, y0 + height - 1, x0, width, gridSize)

(* TinySDF.  Measured extents are whole pixels; metrics are kept in half
   pixels, because the 2x tier halves the measured values. *)

\* Math.ceil(n / d) for d > 0
Ceil(n, d) == 0 - ((0 - n) \div d)
Max(a, b) == IF a > b THEN a ELSE b
Min(a, b) == IF a < b THEN a ELSE b

\* the constructor: the fields a draw reads and the lengths of the two grids
\* and of the scratch arrays
Constructor(fontSize, buffer, radius) ==
    LET size == fontSize + buffer * 8
    IN [fontSize |-> fontSize, buffer |-> buffer, radius |-> radius, size |-> size,
        gridLength |-> size * size,
        fLength |-> size, zLength |-> size + 1, vLength |-> size]

\* lines 411-415: the two grids and the scratch arrays as the constructor
\* makes them, filled with 0; of each grid the first cells elements and of f
\* and v the first longest, of z one more, all of an array that is shorter.
\* The first draw of a synthesizer touches the cells below width * height
\* of a grid and the elements below the longer of width and height of f and
\* v, so for that draw these parts stand for the arrays.
Arrays(tinySDF, cells, longest) ==
    [gridOuter |-> NewArray(Min(cells, tinySDF.gridLength), Zero),
     gridInner |-> NewArray(Min(cells, tinySDF.gridLength), Zero),
     f |-> NewArray(Min(tinySDF.fLength, longest), Zero),
     v |-> NewArray(Min(tinySDF.vLength, longest), 0),
     z |-> NewArray(Min(tinySDF.zLength, longest + 1), Zero),
     surface |-> <<>>]

\* the arrays of a synthesizer after a draw, in full: what the draw left in
\* the part it touched and the constructor's 0 in the rest
Whole(tinySDF, after) ==
    LET all == Arrays(tinySDF, tinySDF.gridLength, tinySDF.size)
    IN [name \in DOMAIN all |->
           IF name = "surface" THEN after.surface
           ELSE CHOOSE a \in {[i \in DOMAIN all[name] |->
                                  IF i \in DOMAIN after[name] THEN after[name][i]
                                  ELSE all[name][i]]} : a = a]

\* lines 457-458: array.fill(x, 0, end); end is cut to the array's length
FillArray_Nothing(array, x, end) == array
FillArray(array, x, end) ==
    Const({CHOOSE a \in {[i \in DOMAIN old |-> IF i < end THEN x ELSE old[i]]} :
               a = a :
           old \in {array}})


\* imgData.data[4 * (y * glyphWidth + x) + 3]: the alpha the canvas drew at
\* pixel (x, y) of the glyph's box, for a coverage
AlphaAt(cover, x, y, boxWidth, boxHeight) ==
    IF cover.kind = "blank" THEN 0
    ELSE IF cover.kind = "solid" THEN 255
    ELSE IF /\ cover.x <= x /\ x < cover.x + cover.n
            /\ cover.y <= y /\ y < cover.y + cover.n THEN 255
    ELSE IF cover.kind = "soft"
            /\ cover.x - 1 <= x /\ x < cover.x + cover.n + 1
            /\ cover.y - 1 <= y /\ y < cover.y + cover.n + 1
         THEN (IF (x + y) % 2 = 0 THEN 85 ELSE 170)
    ELSE 0

(* The canvas of a synthesizer (lines 400-406) is the list of what was done
   to it, latest last: clearRect(x, y, w, h) and fillText of a string whose
   coverage is given for the box at (x, y).  A new canvas is transparent;
   clearRect makes the pixels of its rectangle transparent, fillText draws
   over what is there. *)

\* the alpha of the canvas at pixel (px, py): what getImageData reads
RECURSIVE PixelAt(_, _, _)
PixelAt(surface, px, py) ==
    IF surface = <<>> THEN 0
    ELSE LET last == surface[Len(surface)]
             below == PixelAt(SubSeq(surface, 1, Len(surface) - 1), px, py)
         IN IF ~(/\ last.x <= px /\ px < last.x + last.w
                 /\ last.y <= py /\ py < last.y + last.h)
            THEN below
            ELSE IF last.op = "clearRect" THEN 0
            ELSE Const({IF a = 255 THEN 255 ELSE a + (below * (255 - a)) \div 255 :
                        a \in {AlphaAt(last.cover, px - last.x, py - last.y,
                                       last.w, last.h)}})

\* lines 460-475: the cells of the two grids for an alpha value; d = 0.5 - a
\* with a = alpha / 255, and d * d in multiples of 1 / Unit
\* outer says which grid: gridOuter[j] or gridInner[j]
Cell(outer, alpha, old) ==
    LET half == 255 - 2 * alpha
        squareOfD == Fin((half * half * Unit) \div (510 * 510), Unit)
    IN IF alpha = 0 THEN old
       ELSE IF alpha = 255 THEN (IF outer THEN Zero ELSE INF)
       ELSE IF outer THEN (IF half > 0 THEN squareOfD ELSE Zero)
       ELSE (IF half < 0 THEN squareOfD ELSE Zero)

\* lines 459-476: the two loops over the glyph's box
Rasterize(filled, outer, surface, margin, rowLength, boxWidth, boxHeight) ==
    Const({CHOOSE a \in {[j \in DOMAIN grid |->
                            LET y == (j \div rowLength) - margin
                                x == (j % rowLength) - margin
                            IN IF 0 <= y /\ y < boxHeight /\ 0 <= x /\ x < boxWidth
                               THEN Cell(outer,
                                         PixelAt(canvas, margin + x, margin + y),
                                         grid[j])
                               ELSE grid[j]]} : a = a :
           grid \in {filled}, canvas \in {surface}})

\* the least x in lo .. hi with x * x * r2 >= c, and hi if there is none
RECURSIVE LeastRoot(_, _, _, _)
LeastRoot(lo, hi, r2, c) ==
    IF lo >= hi THEN hi
    ELSE LET mid == (lo + hi) \div 2
         IN IF mid * mid * r2 >= c THEN LeastRoot(lo, mid, r2, c)
            ELSE LeastRoot(mid + 1, hi, r2, c)

\* line 484: Math.round(255 - 255 * (d / radius + cutoff)) stored in a
\* Uint8ClampedArray, for d = sqrt(outer) - sqrt(inner) and cutoff 0.25.
\* After the transforms one of outer and inner is 0 and the other is n / Unit.
\* Math.round(x) is the largest integer k <= x + 0.5.  Outside, that is the
\* largest k with 170 * sqrt(n) / radius <= 767 - 4 * k; inside, the largest k
\* with 4 * k - 767 <= 170 * sqrt(n) / radius.  NaN and values below 0 are
\* stored as 0 and values above 255 as 255: at a distance of the radius or
\* more the value is 0 outside and 255 inside.
Quantize(outer, inner, radius) ==
    IF outer.t = "nan" \/ inner.t = "nan" THEN 0
    ELSE IF outer.t = "huge" /\ inner.t = "huge" THEN 191
    ELSE IF outer.t = "huge" THEN 0
    ELSE IF inner.t = "huge" THEN 255
    ELSE IF inner.n = 0
    THEN IF outer.n >= Unit * radius * radius THEN 0
         ELSE LET x == LeastRoot(0, 768, radius * radius, 28900 * outer.n)
              IN Max(0, (767 - x) \div 4)
    ELSE IF inner.n >= Unit * radius * radius THEN 255
         ELSE LET x == LeastRoot(0, 768, radius * radius, 28900 * inner.n + 1) - 1
              IN Min(255, (767 + x) \div 4)

\* lines 432-437 of draw: the glyph's top and the glyph's box, clipped to
\* the surface
GlyphTop(measured) == Ceil(12 * measured.fontBoundingBoxAscent, 10)
GlyphWidth(tinySDF, measured) ==
    Max(0, Min(tinySDF.size - tinySDF.buffer,
               measured.actualBoundingBoxRight - measured.actualBoundingBoxLeft))
GlyphHeight(tinySDF, measured) ==
    Min(tinySDF.size - tinySDF.buffer,
        GlyphTop(measured) + Ceil(18 * measured.fontBoundingBoxDescent, 10))

\* TinySDF.draw(char) on a synthesizer whose grids and scratch arrays are
\* used: the glyph it returns and the arrays as the draw leaves them, and for
\* the properties the two grids before and after their transforms and
\* whether an index beyond an array was used
Draw(tinySDF, used, measured, cover) ==
    LET buffer == tinySDF.buffer
        glyphTop == GlyphTop(measured)
        glyphLeft == 0
        glyphWidth == GlyphWidth(tinySDF, measured)
        glyphHeight == GlyphHeight(tinySDF, measured)
        width == glyphWidth + 2 * buffer
        height == glyphHeight + 2 * buffer
        len == Max(width * height, 0)
        glyph(data) == [data |-> data, width |-> width, height |-> height,
                        glyphWidth |-> glyphWidth, glyphHeight |-> glyphHeight,
                        glyphTop |-> glyphTop, glyphLeft |-> glyphLeft,
                        glyphAdvance |-> measured.width]
        painted == used.surface \o
                   <<[op |-> "clearRect", x |-> buffer, y |-> buffer,
                      w |-> glyphWidth, h |-> glyphHeight],
                     [op |-> "fillText", x |-> buffer, y |-> buffer,
                      w |-> glyphWidth, h |-> glyphHeight, cover |-> cover]>>
    IN IF glyphWidth = 0 \/ glyphHeight = 0
       THEN [glyph |-> glyph(NewArray(len, 0)), edt |-> FALSE, oob |-> FALSE,
             after |-> used]
       ELSE Const({Const({Const({
            [glyph |-> glyph(CHOOSE data \in
                               {[i \in 0 .. (len - 1) |->
                                   Quantize(Get(m1.grid, i), Get(m2.grid, i),
                                            tinySDF.radius)]} : data = data),
             edt |-> TRUE, oob |-> m2.oob,
             outerBefore |-> outer0, outerAfter |-> m1.grid,
             innerBefore |-> inner0, innerAfter |-> m2.grid,
             after |-> [gridOuter |-> m1.grid, gridInner |-> m2.grid,
                        f |-> m2.f, v |-> m2.v, z |-> m2.z,
                        surface |-> painted]] :
            m2 \in {Edt([m1 EXCEPT !.grid = inner0],
                        buffer, buffer, glyphWidth, glyphHeight, width)}}) :
            m1 \in {Edt([grid |-> outer0, f |-> used.f, v |-> used.v, z |-> used.z,
                         k |-> 0, oob |-> len > tinySDF.gridLength],
                        0, 0, width, height, width)}}) :
            outer0 \in {Rasterize(FillArray(used.gridOuter, INF, len), TRUE, painted,
                                  buffer, width, glyphWidth, glyphHeight)},
            inner0 \in {Rasterize(FillArray(used.gridInner, Zero, len), FALSE, painted,
                                  buffer, width, glyphWidth, glyphHeight)}})

(* What GlyphManager._tinySDF returns for a drawn glyph (lines 721-732).
   x / textureScale || fallback takes the fallback when the quotient is 0;
   the metrics are in half pixels, so that the quotients by 2 are integers:
   27.5 is 55 and 0.5 is 1. *)
OrElse_Keep(x, fallback) == x
OrElse(x, fallback) == IF x = 0 THEN fallback ELSE x
StyleGlyph(char, textureScale) ==
    LET halfPixels(x) == (2 * x) \div textureScale
    IN [bitmap |-> [width |-> OrElse(char.width, 30 * textureScale),
                    height |-> OrElse(char.height, 30 * textureScale),
                    data |-> char.data],
        metrics |-> [width |-> OrElse(halfPixels(char.glyphWidth), 2 * 24),
                     height |-> OrElse(halfPixels(char.glyphHeight), 2 * 24),
                     left |-> OrElse(halfPixels(char.glyphLeft) + 1, 0),
                     top |-> OrElse(halfPixels(char.glyphTop) - 55, 2 * (0 - 8)),
                     advance |-> OrElse(halfPixels(char.glyphAdvance), 2 * 24),
                     isDoubleResolution |-> textureScale = 2]]

(* The synthesizers of the model: the two the manager constructs (lines
   686-693), for textureScale 1 and 2, and one on a surface of nine pixels,
   constructed directly, for which textureScale is 0. *)
SDFOf(textureScale) ==
    IF textureScale = 0 THEN Constructor(1, 1, 8)
    ELSE Constructor(24 * textureScale, 8 * textureScale, 8 * textureScale)

(* What ctx.measureText returns, in whole pixels.  For the small synthesizer
   the right edge goes up to MaxRight and ascent and descent up to MaxAscent,
   which lets the glyph's box reach the size of the surface; for the
   manager's, whose margins of 8 and 16 pixels make the bitmap of the
   smallest glyph 17 and 33 pixels wide, all three go up to MaxManagerExtent.
   The advance width may be 0 where the manager has a fallback for it, and
   the left edge may lie right of the right edge for the small synthesizer. *)
MaxRight         == 8
MaxAscent        == 3
MaxManagerExtent == 1
Measurements(textureScale) ==
    [width : IF textureScale = 0 THEN {7} ELSE {0, 7},
     fontBoundingBoxAscent :
         0 .. (IF textureScale = 0 THEN MaxAscent ELSE MaxManagerExtent),
     fontBoundingBoxDescent :
         0 .. (IF textureScale = 0 THEN MaxAscent ELSE MaxManagerExtent),
     actualBoundingBoxLeft : IF textureScale = 0 THEN {0, 1} ELSE {0},
     actualBoundingBoxRight :
         0 .. (IF textureScale = 0 THEN MaxRight ELSE MaxManagerExtent)]

(* What the canvas draws into the glyph's box: ink everywhere, or an opaque
   square as wide as the box allows at the top or at the bottom of it, with
   or without a fringe of partly covered pixels; nothing into an empty box. *)
Covers(glyphWidth, glyphHeight) ==
    LET n == Min(glyphWidth, glyphHeight)
    IN IF n <= 0 THEN {[kind |-> "blank"]}
       ELSE {[kind |-> "solid"]}
            \cup [kind : {"square", "soft"}, x : {0}, y : {0, glyphHeight - n}, n : {n}]

\* a synthesizer, a string it has measured and what the canvas draws for it
Constructed(t) ==
    UNION {{[pc |-> "constructed", textureScale |-> t, tinySDF |-> SDFOf(t),
             measured |-> ms, cover |-> c] :
              c \in Covers(GlyphWidth(SDFOf(t), ms), GlyphHeight(SDFOf(t), ms))} :
           ms \in Measurements(t)}

\* the arrays of a new synthesizer, for the draw of a measured string
Unused(tinySDF, measured) ==
    LET width == GlyphWidth(tinySDF, measured) + 2 * tinySDF.buffer
        height == GlyphHeight(tinySDF, measured) + 2 * tinySDF.buffer
    IN Arrays(tinySDF, Max(width * height, 0), Max(width, height))

\* tinySDF.draw(id), the first draw of the synthesizer
DrawChar ==
    /\ sdf.pc = "constructed"
    /\ \E used \in {Unused(sdf.tinySDF, sdf.measured)} :
          sdf' = [pc |-> "drawn", textureScale |-> sdf.textureScale,
                  tinySDF |-> sdf.tinySDF, measured |-> sdf.measured,
                  cover |-> sdf.cover,
                  char |-> Draw(sdf.tinySDF, used, sdf.measured, sdf.cover)]
    /\ UNCHANGED <<env, family, url, entries, fetches, calls, seg, tab>>

\* tinySDF.draw(id) again, for another string, on the synthesizer as the
\* first draw left it.  The second string's left edge is 0: the edges enter
\* a draw by their difference only (line 440).
DrawAgain ==
    /\ sdf.pc = "drawn"
    /\ sdf.textureScale = 0
    /\ \E used \in {Whole(sdf.tinySDF, sdf.char.after)} :
          \E next \in {c \in Constructed(0) : c.measured.actualBoundingBoxLeft = 0} :
             sdf' = [pc |-> "redrawn", textureScale |-> sdf.textureScale,
                     tinySDF |-> sdf.tinySDF,
                     first |-> [measured |-> sdf.measured, cover |-> sdf.cover],
                     measured |-> next.measured, cover |-> next.cover,
                     char |-> Draw(sdf.tinySDF, used, next.measured, next.cover)]
    /\ UNCHANGED <<env, family, url, entries, fetches, calls, seg, tab>>

\* lines 721-732: the glyph _tinySDF returns
ReturnGlyph ==
    /\ sdf.pc = "drawn"
    /\ sdf.textureScale # 0
    /\ sdf' = [pc |-> "returned", textureScale |-> sdf.textureScale,
               tinySDF |-> sdf.tinySDF, measured |-> sdf.measured, cover |-> sdf.cover,
               char |-> sdf.char,
               glyph |-> StyleGlyph(sdf.char.glyph, sdf.textureScale)]
    /\ UNCHANGED <<env, family, url, entries, fetches, calls, seg, tab>>

(* edt1d on its own: a line of a grid, with scratch arrays as long as the
   grid.  before is the grid as it was handed to edt1d. *)
MaxLine == 4
Lines(grid) ==
    UNION {{[pc |-> "line", offset |-> o, stride |-> st, length |-> n,
             before |-> grid,
             m |-> [grid |-> grid, f |-> NewArray(MaxLine, Zero),
                    v |-> NewArray(MaxLine, 0), z |-> NewArray(MaxLine + 1, Zero),
                    k |-> 0, oob |-> FALSE]] :
              n \in 1 .. ((MaxLine - 1 - o) \div st + 1)} :
           o \in 0 .. 1, st \in 1 .. 2}

\* edt1d(grid, offset, stride, length, f, v, z)
TransformLine ==
    /\ sdf.pc = "line"
    /\ sdf' = [sdf EXCEPT !.pc = "transformed",
                          !.m = Edt1d(sdf.m, sdf.offset, sdf.stride, sdf.length)]
    /\ UNCHANGED <<env, family, url, entries, fetches, calls, seg, tab>>

InitSDF ==
    /\ \/ \E t \in 0 .. 2 : sdf \in Constructed(t)
       \/ \E grid \in [0 .. (MaxLine - 1) ->
                        {Zero, Fin(9, Unit), Fin(5 * Unit, Unit), INF}] :
             sdf \in Lines(grid)
    /\ seg = NoSegmentation
    /\ tab = NoTable
    /\ AtRest

NextSDF == DrawChar \/ ReturnGlyph \/ TransformLine

SpecSDF == InitSDF /\ [][NextSDF]_vars

(* One synthesizer that draws two strings, one after the other, on the
   surface of nine pixels.  The strings drawn first: one with a small box,
   one whose box and margin nearly fill the surface, and one whose box and
   margin go beyond the surface, each with partly covered pixels. *)
InitReuse ==
    /\ sdf \in {c \in Constructed(0) :
                   /\ c.measured.actualBoundingBoxLeft = 0
                   /\ <<c.measured.actualBoundingBoxRight,
                        c.measured.fontBoundingBoxAscent,
                        c.measured.fontBoundingBoxDescent>>
                          \in {<<1, 1, 0>>, <<MaxRight - 2, MaxAscent, 1>>,
                               <<MaxRight, MaxAscent, MaxAscent>>}
                   /\ c.cover.kind = "soft" /\ c.cover.y = 0}
    /\ seg = NoSegmentation
    /\ tab = NoTable
    /\ AtRest

SpecReuse == InitReuse /\ [][DrawChar \/ DrawAgain]_vars

----------------------------------------------------------------------------
(* C27, C28, C29, C22: the synthesizer *)

Drawn == sdf.pc \in {"drawn", "returned"}

\* C27: in a draw the bitmap's width and height, margins included, are at
\* most the surface's edge, width * height is at most the length of a grid,
\* and no index beyond an array is used.
C27_WithinSurface ==
    Drawn =>
        /\ sdf.char.glyph.width <= sdf.tinySDF.size
        /\ sdf.char.glyph.height <= sdf.tinySDF.size
        /\ sdf.char.glyph.width * sdf.char.glyph.height <= sdf.tinySDF.gridLength
        /\ ~sdf.char.oob

(* The reference of the distance transform.  cells are the indices of a line
   or of a region of a grid g; the squared distance between two of them is
   counted in steps of stride along a line (rowLength 0) and in rows and
   columns in a grid of rows of rowLength; the reference at i is the least
   g[c] + squared distance of c and i.  Least is Math.min: NaN when a value
   is NaN.  A cell that is not finite absorbs the distance added to it, as
   INF = 1e20 does in a double. *)
Square(n) == n * n
Distance2(c, i, stride, rowLength) ==
    IF rowLength = 0 THEN Square((c - i) \div stride)
    ELSE Square((c % rowLength) - (i % rowLength))
         + Square((c \div rowLength) - (i \div rowLength))
Same(a, b) == LessEq(a, b) /\ LessEq(b, a)
Least(S) ==
    IF \E c \in S : \A d \in S : LessEq(c, d)
    THEN CHOOSE c \in S : \A d \in S : LessEq(c, d)
    ELSE NaNValue
Reference(g, cells, stride, rowLength, i) ==
    Least({PlusInt(g[c], Distance2(c, i, stride, rowLength)) :
             c \in {c \in cells : Get(g, c).t = "fin"}}
          \cup {Get(g, c) : c \in {c \in cells : Get(g, c).t # "fin"}})

\* after is before with every cell of cells replaced by its reference and
\* every other cell as it was
Transformed(before, after, cells, stride, rowLength) ==
    /\ DOMAIN after = DOMAIN before
    /\ \A i \in cells :
          /\ Within(after, i)
          /\ Same(after[i], Reference(before, cells, stride, rowLength, i))
    /\ \A i \in DOMAIN before \ cells : after[i] = before[i]

LineCells(offset, stride, length) == {offset + q * stride : q \in 0 .. (length - 1)}
Region(x0, y0, width, height, gridSize) ==
    {y * gridSize + x : x \in x0 .. (x0 + width - 1), y \in y0 .. (y0 + height - 1)}

LineTransformed ==
    Transformed(sdf.before, sdf.m.grid,
                LineCells(sdf.offset, sdf.stride, sdf.length), sdf.stride, 0)
GridsTransformed ==
    LET glyph == sdf.char.glyph
        buffer == sdf.tinySDF.buffer
    IN /\ Transformed(sdf.char.outerBefore, sdf.char.outerAfter,
                      Region(0, 0, glyph.width, glyph.height, glyph.width),
                      1, glyph.width)
       /\ Transformed(sdf.char.innerBefore, sdf.char.innerAfter,
                      Region(buffer, buffer, glyph.glyphWidth, glyph.glyphHeight,
                             glyph.width),
                      1, glyph.width)

\* C28: edt1d replaces every position q of a line by the least
\* f[r] + (q - r)^2 over the positions r of the line, f being the line before
\* the call; edt replaces every cell of its region by the least
\* g[c] + squared distance over the cells c of the region, and leaves every
\* cell outside the region as it was.
C28_ReferenceTransform ==
    /\ sdf.pc = "transformed" => LineTransformed
    /\ Drawn /\ sdf.char.edt => GridsTransformed

\* the same of the transforms that stay within the arrays
C28_WithinArrays ==
    /\ sdf.pc = "transformed" /\ ~sdf.m.oob => LineTransformed
    /\ Drawn /\ sdf.char.edt /\ ~sdf.char.oob => GridsTransformed

(* The signed-distance field of a draw.  A cell of the bitmap is ink where
   the canvas drew an opaque pixel.  Its distance from the edge is the
   distance to the nearest cell of the other kind anywhere in the bitmap;
   the field's magnitude there is what the transforms left in the grid of
   its own kind.  Both are kept squared. *)
Cells == 0 .. (sdf.char.glyph.width * sdf.char.glyph.height - 1)
Ink(i) ==
    LET glyph == sdf.char.glyph
        x == (i % glyph.width) - sdf.tinySDF.buffer
        y == (i \div glyph.width) - sdf.tinySDF.buffer
    IN /\ 0 <= x /\ x < glyph.glyphWidth
       /\ 0 <= y /\ y < glyph.glyphHeight
       /\ AlphaAt(sdf.cover, x, y, glyph.glyphWidth, glyph.glyphHeight) = 255
Least2(S) == CHOOSE m \in S : \A n \in S : m <= n
FromEdge2 ==
    CHOOSE a \in {[i \in Cells |->
                     Least2({Distance2(c, i, 1, sdf.char.glyph.width) :
                               c \in {c \in Cells : Ink(c) # Ink(i)}})]} : a = a
Magnitude2(i) ==
    IF Ink(i) THEN sdf.char.innerAfter[i] ELSE sdf.char.outerAfter[i]

\* the field is negative on ink and positive elsewhere
ZeroCrossing ==
    \A i \in Cells :
        IF Ink(i)
        THEN sdf.char.outerAfter[i] = Zero /\ Less(Zero, sdf.char.innerAfter[i])
        ELSE sdf.char.innerAfter[i] = Zero /\ Less(Zero, sdf.char.outerAfter[i])

\* of two cells of one kind within the radius of the edge, the one nearer to
\* the edge has no larger a magnitude
Monotone ==
    \A fromEdge2 \in {FromEdge2} :
       (\A i, j \in Cells :
           /\ Ink(i) = Ink(j)
           /\ fromEdge2[i] < fromEdge2[j]
           /\ fromEdge2[j] <= Square(sdf.tinySDF.radius)
           => LessEq(Magnitude2(i), Magnitude2(j)))

(* k = round(255 - 255 * (d / radius + 0.25)) kept within 0 .. 255, for
   d = sqrt(outer) - sqrt(inner) with one of the two 0 and the other n / Unit:
   k <= 191.75 - 255 * d / radius < k + 1, the first only for k < 255 and the
   second only for k > 0.  With e = 170 * sqrt(n), negated inside, that is
   (763 - 4 * k) * radius < e <= (767 - 4 * k) * radius, compared through
   t * |t|, which keeps the order.  At the radius and beyond it k is 0
   outside and 255 inside. *)
SignedSquare(t) == IF t < 0 THEN 0 - t * t ELSE t * t
Rounded(k, outer, inner, radius) ==
    /\ outer = Zero \/ inner = Zero
    /\ LET far == IF inner = Zero THEN outer ELSE inner
           sign == IF inner = Zero THEN 1 ELSE -1
       IN IF far.t = "huge" \/ far.n >= far.d * Square(radius)
          THEN k = (IF sign = 1 THEN 0 ELSE 255)
          ELSE /\ far.d = Unit
               /\ k = 0 \/ sign * 28900 * far.n <= SignedSquare((767 - 4 * k) * radius)
               /\ k = 255 \/ SignedSquare((763 - 4 * k) * radius) < sign * 28900 * far.n
Quantized ==
    \A i \in Cells :
        Rounded(sdf.char.glyph.data[i], sdf.char.outerAfter[i],
                sdf.char.innerAfter[i], sdf.tinySDF.radius)

\* a draw of an opaque square into an otherwise empty box, within the arrays
SquareDrawn ==
    /\ Drawn /\ sdf.char.edt /\ ~sdf.char.oob
    /\ sdf.cover.kind = "square"

\* C29: the field of an opaque N x N square on an otherwise empty surface
\* changes sign on the square's edge, its magnitude does not decrease with
\* the distance from that edge up to the radius, and every pixel of the
\* bitmap is round(255 - 255 * (signed distance / radius + cutoff)).
C29_SquareField ==
    SquareDrawn => ZeroCrossing /\ Monotone /\ Quantized

\* the parts of it that do not depend on the magnitude inside the square
C29_SignAndQuantization ==
    SquareDrawn => ZeroCrossing /\ Quantized

(* A degenerate draw as the manager sees it: _tinySDF has returned the glyph
   of a character whose box is 0 wide or 0 high.  Metrics are in half
   pixels: 48 is the fallback 24. *)
Degenerate ==
    /\ sdf.pc = "returned"
    /\ sdf.char.glyph.glyphWidth = 0 \/ sdf.char.glyph.glyphHeight = 0
MetricOf(x) ==
    IF x = 0 THEN 2 * 24 ELSE (2 * x) \div sdf.textureScale
FallbackMetrics ==
    /\ sdf.glyph.metrics.width = MetricOf(sdf.char.glyph.glyphWidth)
    /\ sdf.glyph.metrics.height = MetricOf(sdf.char.glyph.glyphHeight)
    /\ sdf.glyph.metrics.advance = MetricOf(sdf.measured.width)

\* C22 as the specification states it: the glyph of a degenerate draw has a
\* bitmap of zero area, without pixels, and 24 for each of width, height and
\* advance that was not measured.
C22_AsClaimed ==
    Degenerate =>
        /\ sdf.glyph.bitmap.width * sdf.glyph.bitmap.height = 0
        /\ DOMAIN sdf.glyph.bitmap.data = {}
        /\ FallbackMetrics

\* C22: the glyph of a degenerate draw has a bitmap of the box plus the
\* margin of 8 * textureScale pixels on every side, every pixel of it 0, and
\* each of the metrics width, height and advance is the measured value over
\* the texture scale, or 24 where that is 0; the transforms have not run.
C22_DegenerateDraw ==
    Degenerate =>
        /\ ~sdf.char.edt
        /\ sdf.glyph.bitmap.width
               = sdf.char.glyph.glyphWidth + 2 * (8 * sdf.textureScale)
        /\ sdf.glyph.bitmap.height
               = sdf.char.glyph.glyphHeight + 2 * (8 * sdf.textureScale)
        /\ DOMAIN sdf.glyph.bitmap.data
               = 0 .. (sdf.glyph.bitmap.width * sdf.glyph.bitmap.height - 1)
        /\ \A i \in DOMAIN sdf.glyph.bitmap.data : sdf.glyph.bitmap.data[i] = 0
        /\ FallbackMetrics
C22_Witness ==
    /\ Degenerate
    /\ sdf.textureScale = 2
    /\ sdf.char.glyph.glyphWidth = 0
    /\ sdf.char.glyph.glyphHeight > 0
    /\ sdf.measured.width = 0

----------------------------------------------------------------------------
(* C31 to C35: the manager's cache along an execution *)

\* the glyph map's value for the id before the step
CachedBefore(lk) == EntryOf(entries, lk.stack).glyphs[lk.id]

\* C31: a lookup of an id that the glyph map holds a glyph or null for, and
\* that is not locally eligible, returns that value: it does not fail with the
\* overflow or the missing-source error, records no request to await and the
\* loader is not called for the id's range.
C31_CachedFirst ==
    [][IsGetGlyphsStep =>
        \A x \in LookupsOf(AddedCalls) :
            (CachedBefore(Lk(x)) # Undefined /\ ~Eligible(Lk(x).id)) =>
                /\ Lk(x).st = "done"
                /\ Lk(x).glyph = CachedBefore(Lk(x))
                /\ Lk(x).req = 0
                /\ Lk(x).join = "none"
                /\ fetches'[Lk(x).stack][RangeOf(Lk(x).id)]
                       = fetches[Lk(x).stack][RangeOf(Lk(x).id)]]_vars

\* a lookup has returned the cached glyph or null of an id that is neither
\* blank nor locally eligible, and no source is configured
C31_Witness ==
    \E x \in LookupsOf(Calls) :
        /\ Lk(x).st = "done" /\ Lk(x).req = 0 /\ ~Lk(x).synth
        /\ Lk(x).glyph # Undefined
        /\ ~Blank(Lk(x).id) /\ ~Eligible(Lk(x).id)
        /\ url = NoUrl

(* C32: if every loader call is answered, every getGlyphs call comes to an
   end, resolved or rejected, and is handed to its caller.  The calls are a
   bag without identities: the property is stated for the calls made up to
   any moment, that is, if from some moment on no getGlyphs call is made, all
   the calls made are eventually over.  (A later call takes nothing from an
   earlier one: the steps of a call are enabled whatever other calls do.) *)
C32_EveryCallEnds ==
    <>[][~IsGetGlyphsStep]_vars => <>[](calls = EmptyBag)

\* a call whose lookup was suspended on a request has been resolved
C32_Witness ==
    \E c \in Calls :
        /\ c.st = "resolved"
        /\ \E i \in DOMAIN c.lookups : Resumed(c.lookups[i])

\* a lookup of the call has thrown
Failed(c) == \E i \in DOMAIN c.lookups : c.lookups[i].st = "fail"

\* C33, in a state: a call with a lookup that has thrown is not resolved, and
\* the request a lookup of it is suspended on is still there to be answered.
C33_State ==
    \A c \in Calls :
        Failed(c) =>
            /\ c.st # "resolved" /\ c.err # ""
            /\ \A i \in DOMAIN c.lookups :
                  c.lookups[i].st = "await" =>
                      /\ c.lookups[i].req \in DOMAIN fetches[c.lookups[i].stack]
                                                            [RangeOf(c.lookups[i].id)]
                      /\ EntryOf(entries, c.lookups[i].stack)
                             .requests[RangeOf(c.lookups[i].id)] = c.lookups[i].req

\* C33, in a step: no loader call is dropped or changed except by its answer;
\* a lookup of a failed call that resumes after a fulfilled request writes
\* the response into the glyph map and marks the range resolved; and a
\* getGlyphs call starts no fetch for a range marked resolved.
C33_Step ==
    /\ \A s \in Stacks, r \in Ranges : \A k \in DOMAIN fetches[s][r] :
          /\ k \in DOMAIN fetches'[s][r]
          /\ fetches[s][r][k].st # "pending" => fetches'[s][r][k] = fetches[s][r][k]
    /\ \A t \in ResumedNow :
          LET lk == t[1].lookups[t[3]]
              response == PromiseOf(lk).response
          IN  Failed(t[1]) =>
                  /\ \A id \in DOMAIN response :
                        entries'[lk.stack].glyphs[id] = response[id]
                  /\ entries'[lk.stack].ranges[RangeOf(lk.id)]
                  /\ Failed(t[2]) /\ t[2].st # "resolved"
    /\ IsGetGlyphsStep =>
          \A x \in LookupsOf(AddedCalls) :
              Resolved(entries, Lk(x).stack, RangeOf(Lk(x).id)) =>
                  /\ Lk(x).st = "done"
                  /\ Lk(x).req = 0
                  /\ fetches'[Lk(x).stack][RangeOf(Lk(x).id)]
                         = fetches[Lk(x).stack][RangeOf(Lk(x).id)]

\* C33: a getGlyphs call with a lookup that failed is rejected and never
\* resolved, while the requests its other lookups started or joined are
\* answered and resumed as usual: the response is merged, the range marked
\* resolved, and later calls start no fetch for that range.
C33_BatchFailureIsolation == []C33_State /\ [][C33_Step]_vars

\* a call was rejected because one lookup threw; the fetch another of its
\* lookups started was answered and that lookup has merged the response
C33_Witness ==
    \E c \in Calls :
        /\ c.st = "rejected"
        /\ \E i \in DOMAIN c.lookups, j \in DOMAIN c.lookups :
              /\ c.lookups[i].st = "fail"
              /\ c.lookups[j].st = "done" /\ c.lookups[j].req > 0
              /\ c.lookups[j].join = "started"
              /\ entries[c.lookups[j].stack].ranges[RangeOf(c.lookups[j].id)]
              /\ entries[c.lookups[j].stack].glyphs[c.lookups[j].id] = c.lookups[j].glyph

\* C34: in every step, a stack that has an entry keeps it; a range of it
\* marked resolved stays marked; a request recorded for a range and not yet
\* answered stays the recorded one; and an id with a glyph or null in the
\* glyph map keeps a glyph or null.
C34_CacheMonotone ==
    [][\A s \in Stacks :
          entries[s] # NoEntry =>
              /\ entries'[s] # NoEntry
              /\ \A r \in Ranges :
                    /\ entries[s].ranges[r] => entries'[s].ranges[r]
                    /\ (/\ entries[s].requests[r] # 0
                        /\ fetches[s][r][entries[s].requests[r]].st = "pending")
                       => /\ entries'[s].requests[r] = entries[s].requests[r]
                          /\ fetches'[s][r][entries[s].requests[r]].url
                                 = fetches[s][r][entries[s].requests[r]].url
              /\ \A id \in Ids :
                    entries[s].glyphs[id] # Undefined
                    => entries'[s].glyphs[id] # Undefined]_vars

\* an entry holds a synthesized glyph for one id and the response's value
\* for another id of the same range, merged after the glyph was synthesized
\* or before; the range is marked and its request still recorded
C34_Witness ==
    \E s \in Stacks :
        /\ entries[s] # NoEntry
        /\ entries[s].glyphs[IdHira].kind = "local"
        /\ entries[s].glyphs[IdComma] # Undefined
        /\ entries[s].ranges[48]
        /\ entries[s].requests[48] = 1
        /\ IdHira \notin DOMAIN fetches[s][48][1].response

\* C35, in a step: a step that changes the source location changes nothing
\* else; no step calls the loader for a range marked resolved, whatever the
\* source is by then; and a lookup that resumes on a response of a source
\* that is no longer the configured one merges it and marks the range.
C35_Step ==
    /\ url' # url => /\ entries' = entries
                     /\ fetches' = fetches
                     /\ calls' = calls
    /\ \A s \in Stacks, r \in Ranges :
          Resolved(entries, s, r) => fetches'[s][r] = fetches[s][r]
    /\ \A t \in ResumedNow :
          LET lk == t[1].lookups[t[3]]
              response == PromiseOf(lk).response
          IN  PromiseOf(lk).url # url =>
                  /\ \A id \in DOMAIN response :
                        entries'[lk.stack].glyphs[id] = response[id]
                  /\ entries'[lk.stack].ranges[RangeOf(lk.id)]

\* C35: setURL changes the source location and no glyph map, range map,
\* request map or request; ranges resolved under the previous source are not
\* fetched again, and a request made under it is still merged when answered.
C35_SetURLFrame == [][C35_Step]_vars

\* the source was changed from u1 to u2 while a request was not yet resumed:
\* its lookup has merged the response of u1, and a later lookup of the same
\* id under u2 returned the cached value with the loader called once
C35_Witness ==
    \E x \in LookupsOf(Calls), y \in LookupsOf(Calls) :
        /\ url = "u2"
        /\ Lk(x).stack = Lk(y).stack /\ Lk(x).id = Lk(y).id
        /\ Lk(x).st = "done" /\ Lk(x).req = 1 /\ PromiseOf(Lk(x)).url = "u1"
        /\ Lk(y).st = "done" /\ Lk(y).req = 0 /\ Lk(y).atResolved
        /\ Len(fetches[Lk(x).stack][RangeOf(Lk(x).id)]) = 1
        /\ entries[Lk(x).stack].ranges[RangeOf(Lk(x).id)]

----------------------------------------------------------------------------
(* C36, C37: the segments and the clusters *)

\* the segments are the clusters, in order, each in exactly one segment and
\* every segment made of one or more of them
RECURSIVE Grouped(_, _)
Grouped(clusters, segments) ==
    IF segments = <<>> THEN clusters = <<>>
    ELSE \E n \in 1 .. Len(clusters) :
            /\ Concat(SubSeq(clusters, 1, n)) = Head(segments)
            /\ Grouped(SubSeq(clusters, n + 1, Len(clusters)), Tail(segments))

\* C36 as claimed: for every input string, every segment returned is the
\* concatenation of one or more consecutive clusters of the first phase, the
\* clusters are used in order and each exactly once, and there are no more
\* segments than clusters.
C36_SegmentsOfClusters ==
    Returned =>
        /\ Grouped(seg.clusters, seg.segments)
        /\ Len(seg.segments) <= Len(seg.clusters)

\* C37 as claimed: for every input string, each segment returned, segmented
\* again, comes back as the list of that one segment.  (Read for the segments
\* made of the code points the sets above are filled for.)
C37_Idempotent ==
    Returned =>
        \A i \in DOMAIN seg.segments :
            (\A j \in DOMAIN seg.segments[i] : seg.segments[i][j] \in CodePoints)
            => segment(seg.segments[i]) = <<seg.segments[i]>>

----------------------------------------------------------------------------
(* C38: a synthesizer that has drawn before *)

\* C38: the glyph a synthesizer returns for a string, its bitmap and its
\* measures, is the glyph a new synthesizer of the same construction returns
\* for that string, whatever string it drew before on the same canvas and
\* into the same grids and scratch arrays.
C38_HistoryIndependent ==
    sdf.pc = "redrawn" =>
        \A unused \in {Unused(sdf.tinySDF, sdf.measured)} :
            sdf.char.glyph = Draw(sdf.tinySDF, unused, sdf.measured, sdf.cover).glyph

\* the second string has a smaller box than the first, whose transforms had
\* gone beyond the arrays, and a coverage with partly covered pixels; the
\* grids still hold cells of the first draw beyond the second bitmap
C38_Witness ==
    /\ sdf.pc = "redrawn"
    /\ sdf.first.measured.actualBoundingBoxRight = MaxRight
    /\ sdf.measured.actualBoundingBoxRight = 2
    /\ sdf.cover.kind = "soft"
    /\ sdf.char.edt /\ ~sdf.char.oob
    /\ \E i \in DOMAIN sdf.char.after.gridOuter :
          /\ i >= sdf.char.glyph.width * sdf.char.glyph.height
          /\ sdf.char.after.gridOuter[i] # Zero

====
